---- MODULE Spec2Model ----
(***************************************************************************)
(* A model of compicc.c, the compiz desktop colour management plug-in.     *)
(*                                                                         *)
(* The display server (root and window properties, the clock), the host    *)
(* compositor (outputs, window geometry) and the colour engine (Oyranos)   *)
(* are the environment.  Every process that has the plug-in loaded keeps   *)
(* its own copy of the plug-in's static variables, caches and per-screen   *)
(* and per-window private data: the plug-in's variables are functions of   *)
(* the process.  A handler of the plug-in is one action; it is written as  *)
(* a chain of operators over a record `st' holding the state the handler   *)
(* can read and write, which the action commits at its end.                *)
(***************************************************************************)
EXTENDS Integers, Sequences, FiniteSets, TLC

(***************************************************************************)
(* Bounds of the model.                                                    *)
(***************************************************************************)
NProcs == 2
NWindows == 2
MaxOutputs == 2
MaxTime == 70
MaxTextures == 4
MaxBatch == 2

Procs == 1 .. NProcs
Windows == 1 .. NWindows
Self == CHOOSE p \in Procs : \A q \in Procs : p <= q

(***************************************************************************)
(* Program constants.                                                      *)
(***************************************************************************)
StaleAfter == 60
CheckEvery == 10
RecordSize == 20

NULL == "NULL"

Min(a, b) == IF a < b THEN a ELSE b

(***************************************************************************)
(* Profiles.  A profile handle is named by its content; oyASSUMED_WEB is   *)
(* the reserved document profile.  oyProfile_FromMem rejects malformed     *)
(* bytes.                                                                  *)
(***************************************************************************)
Web == "web"
BadBytes == "bad"

oyProfile_FromMem(data) == IF data = BadBytes \/ data = "" THEN NULL ELSE data

\* oyProfile_Equal: false when a side is missing.
oyProfile_Equal(a, b) == a # NULL /\ b # NULL /\ a = b

(***************************************************************************)
(* md5string: the four 32-bit words of the hash printed with "%x%x%x%x",   *)
(* i.e. each word in hexadecimal without leading zeros, concatenated.      *)
(* A text is the sequence of its hexadecimal digits.                       *)
(***************************************************************************)
RECURSIVE Hex(_)
Hex(n) == IF n < 16 THEN <<n>> ELSE Hex(n \div 16) \o <<n % 16>>

md5string(md5) == Hex(md5[1]) \o Hex(md5[2]) \o Hex(md5[3]) \o Hex(md5[4])

ZeroMD5 == <<0, 0, 0, 0>>
HashA == <<1, 17, 0, 0>>
HashB == <<17, 1, 0, 0>>
HashC == <<2, 0, 0, 0>>
HashD == <<3, 0, 0, 0>>

(***************************************************************************)
(* State.                                                                  *)
(***************************************************************************)
VARIABLES
  \* the display server and the host
  now,                  \* time(NULL)
  loaded,               \* the processes that have the plug-in loaded
  stencilBits,          \* GL_STENCIL_BITS
  devices,              \* the monitors as the host and Oyranos list them
  geometry,             \* per window: serverX, serverWidth, invisible
  iccColorProfiles,     \* root property COLOR_PROFILES
  iccColorDesktop,      \* root property COLOR_DESKTOP (the heartbeat)
  iccColorRegions,      \* per window: property COLOR_REGIONS
  iccProfileAtoms,      \* per output: the _ICC_PROFILE and _ICC_DEVICE_PROFILE atoms
  iccDisplayAdvanced,   \* root property COLOR_DISPLAY_ADVANCED
  pending,              \* per process: notifications not yet handled
  \* the plug-in, per process
  colour_desktop_can,
  icc_color_desktop_last_time,
  colour_desktop_region_count,
  privates_cache,       \* profiles by md5 text, cluts by transform text
  old_devices,          \* the monitors needUpdate saw last
  nContexts,
  contexts,
  pw,                   \* per window: PrivWindow
  glTextures,           \* GL texture names generated and not deleted
  \* history
  lastOp,               \* what the last handler did
  hist                  \* what happened since the start

serverVars == <<now, loaded, stencilBits, devices, geometry, iccColorProfiles,
                iccColorDesktop, iccColorRegions, iccProfileAtoms,
                iccDisplayAdvanced, pending>>
pluginVars == <<colour_desktop_can, icc_color_desktop_last_time,
                colour_desktop_region_count, privates_cache, old_devices, nContexts,
                contexts,
                pw, glTextures>>
vars == <<serverVars, pluginVars, lastOp, hist>>

(***************************************************************************)
(* Values of the state.                                                    *)
(***************************************************************************)
\* a root or window property that does not exist
NoProfilesProp == [present |-> FALSE, recs |-> <<>>]
NoRegionsProp == [present |-> FALSE, recs |-> <<>>, tail |-> <<>>]
NoDesktopAtom == [state |-> "absent", pid |-> 0, time |-> 0, caps |-> "", name |-> ""]
\* changeProperty( ..., NULL, 0 ): the property exists and holds nothing
EmptyDesktopAtom == [state |-> "empty", pid |-> 0, time |-> 0, caps |-> "", name |-> ""]

\* a notification is <<kind, argument>>
EvProfiles == <<"COLOR_PROFILES", 0>>
EvDesktop == <<"COLOR_DESKTOP", 0>>
EvRegions(w) == <<"COLOR_REGIONS", w>>
EvIccProfile(i) == <<"ICC_PROFILE", i>>
EvGeometry == <<"NET_DESKTOP_GEOMETRY", 0>>
EvAdvanced == <<"COLOR_DISPLAY_ADVANCED", 0>>
EvRandr == <<"RRNotify", 0>>
EvOther == <<"other", 0>>

\* the contents of privates_cache: nothing stored
Lookup(m, k) == IF k \in DOMAIN m THEN m[k] ELSE NULL
Store(m, k, v) == [x \in DOMAIN m \cup {k} |-> IF x = k THEN v ELSE m[x]]
NoEntries == [k \in {} |-> NULL]

\* PrivWindow after pluginInitWindow
pluginInitWindow ==
  [stencil_id_start |-> 0, nRegions |-> 0, pRegion |-> <<>>,
   absoluteWindowRectangleOld |-> <<>>, active |-> 0]

NoOp ==
  [op |-> "none", proc |-> 0, event |-> EvOther, w |-> 0, batch |-> <<>>, trace |-> <<>>]

\* the capabilities of the GL context the plug-in enables and disables; the
\* host owns them and hands them to a callback in any state
GLDisabled == [GL_STENCIL_TEST |-> FALSE, GL_SCISSOR_TEST |-> FALSE]
GLStates == [{"GL_STENCIL_TEST", "GL_SCISSOR_TEST"} -> BOOLEAN]

(***************************************************************************)
(* The state a handler of process p works on, and its commit.  `trace' is  *)
(* the ordered list of what the handler did (checks of the heartbeat,      *)
(* engine runs, GL calls, draw passes); `notify' the properties it wrote.  *)
(***************************************************************************)
State(p) ==
  [proc |-> p,
   now |-> now,
   stencilBits |-> stencilBits,
   nOutputDev |-> Len(devices),
   devices |-> devices,
   geometry |-> geometry,
   iccColorProfiles |-> iccColorProfiles,
   iccColorDesktop |-> iccColorDesktop,
   iccColorRegions |-> iccColorRegions,
   iccProfileAtoms |-> iccProfileAtoms,
   iccDisplayAdvanced |-> iccDisplayAdvanced,
   colour_desktop_can |-> colour_desktop_can[p],
   icc_color_desktop_last_time |-> icc_color_desktop_last_time[p],
   colour_desktop_region_count |-> colour_desktop_region_count[p],
   profiles |-> privates_cache[p].profiles,
   cluts |-> privates_cache[p].cluts,
   old_devices |-> old_devices[p],
   nContexts |-> nContexts[p],
   contexts |-> contexts[p],
   pw |-> pw[p],
   glTextures |-> glTextures[p],
   gl |-> GLDisabled,
   notify |-> {},
   trace |-> <<>>]

\* the plug-in's variables and the properties a handler can write
Commit(p, st) ==
  /\ iccColorProfiles' = st.iccColorProfiles
  /\ iccColorDesktop' = st.iccColorDesktop
  /\ iccProfileAtoms' = st.iccProfileAtoms
  /\ colour_desktop_can' = [colour_desktop_can EXCEPT ![p] = st.colour_desktop_can]
  /\ icc_color_desktop_last_time' =
       [icc_color_desktop_last_time EXCEPT ![p] = st.icc_color_desktop_last_time]
  /\ colour_desktop_region_count' =
       [colour_desktop_region_count EXCEPT ![p] = st.colour_desktop_region_count]
  /\ privates_cache' =
       [privates_cache EXCEPT ![p] = [profiles |-> st.profiles, cluts |-> st.cluts]]
  /\ old_devices' = [old_devices EXCEPT ![p] = st.old_devices]
  /\ nContexts' = [nContexts EXCEPT ![p] = st.nContexts]
  /\ contexts' = [contexts EXCEPT ![p] = st.contexts]
  /\ pw' = [pw EXCEPT ![p] = st.pw]
  /\ glTextures' = [glTextures EXCEPT ![p] = st.glTextures]

\* the server sends a PropertyNotify to every process that selected it
Notified(pend, events) ==
  [q \in Procs |-> IF q \in loaded THEN pend[q] \cup events ELSE pend[q]]

(***************************************************************************)
(* Profile Store: updateScreenProfiles and profileFromMD5.                 *)
(***************************************************************************)
\* a well-formed payload holds whole records
XcolorProfileCount(recs) == Len(recs)

\* one round of the loop over the records: <<the store, stop>>
MutStoreProfileToggle(store, rec) ==
  LET hash_text == md5string(rec.md5)
      prof == Lookup(store, hash_text)
  IN IF rec.length # 0
     THEN IF prof = NULL
          THEN IF oyProfile_FromMem(rec.data) = NULL
               THEN [store |-> store, stop |-> TRUE]
               ELSE [store |-> Store(store, hash_text, oyProfile_FromMem(rec.data)),
                     stop |-> FALSE]
          ELSE [store |-> [k \in DOMAIN store \ {hash_text} |-> store[k]],
                stop |-> FALSE]
     ELSE [store |-> store, stop |-> FALSE]

\* (as the round would be if the loop went on after bytes it cannot read)
MutStoreProfileGoesOn(store, rec) ==
  LET hash_text == md5string(rec.md5)
      prof == Lookup(store, hash_text)
  IN IF rec.length # 0 /\ prof = NULL /\ oyProfile_FromMem(rec.data) # NULL
     THEN [store |-> Store(store, hash_text, oyProfile_FromMem(rec.data)), stop |-> FALSE]
     ELSE [store |-> store, stop |-> FALSE]

StoreProfile(store, rec) ==
  LET hash_text == md5string(rec.md5)
      prof == Lookup(store, hash_text)
  IN IF rec.length # 0
     THEN IF prof = NULL
          THEN IF oyProfile_FromMem(rec.data) = NULL
               THEN [store |-> store, stop |-> TRUE]
               ELSE [store |-> Store(store, hash_text, oyProfile_FromMem(rec.data)),
                     stop |-> FALSE]
          ELSE [store |-> store, stop |-> FALSE]
     ELSE [store |-> store, stop |-> FALSE]

RECURSIVE StoreProfiles(_, _, _)
StoreProfiles(store, recs, i) ==
  IF i > XcolorProfileCount(recs)
  THEN store
  ELSE LET r == StoreProfile(store, recs[i])
       IN IF r.stop THEN r.store ELSE StoreProfiles(r.store, recs, i + 1)

\* fetchProperty( ..., True ) deletes the property it read
updateScreenProfiles(st) ==
  IF ~st.iccColorProfiles.present
  THEN st
  ELSE [st EXCEPT !.iccColorProfiles = NoProfilesProp,
                  !.notify = @ \cup {EvProfiles},
                  !.profiles = StoreProfiles(st.profiles, st.iccColorProfiles.recs, 1)]

profileFromMD5(store, md5) == Lookup(store, md5string(md5))

(***************************************************************************)
(* The heartbeat: updateIccColorDesktopAtom.                               *)
(***************************************************************************)
Pid(p) == p
my_id == "compicc"
my_capabilities == "|ICM|ICP|ICR|ICA|V0.3|"

Emit(st, entry) == [st EXCEPT !.trace = Append(@, entry)]

\* the contexts of the screen, 0-based as in the code
Ctx(st, i) == st.contexts[i + 1]
CtxIndices(st) == 0 .. st.nContexts - 1

attached_profiles(st) ==
  Cardinality({i \in CtxIndices(st) : Ctx(st, i).cc.dst_profile # NULL})
transform_n(st) ==
  Cardinality({i \in CtxIndices(st) : Ctx(st, i).cc.glTexture # 0})

\* the loop that ends updateIccColorDesktopAtom when colour_desktop_can is 0
DeleteOutputTextures(st) ==
  [st EXCEPT
     !.glTextures = @ \ {Ctx(st, i).cc.glTexture : i \in CtxIndices(st)},
     !.contexts = [k \in 1 .. Len(st.contexts) |->
                     [st.contexts[k] EXCEPT !.cc.glTexture = 0]]]

\* the decision to take the service over from a record of another server
TakeOver(atom_time, last_time, name, request) ==
  \/ atom_time < last_time
  \/ name = "kolorserver"
  \/ request = 2

\* the decision to write the record anew
\* (as it would be if a record were renewed when it is stale only)
MutRenewWhenStale(atom_time, last_time, request) ==
  \/ atom_time + StaleAfter < last_time
  \/ request = 2

Renew(atom_time, last_time, request) ==
  \/ atom_time + CheckEvery < last_time
  \/ request = 2

\* what one call decides, from what it reads
HeartbeatDecision(st, request) ==
  LET atom == st.iccColorDesktop
      read == atom.state = "set"
      other == read /\ atom.pid # Pid(st.proc) /\ atom.name # my_id
      taking == other /\ TakeOver(atom.time, st.icc_color_desktop_last_time,
                                  atom.name, request)
      renew == Renew(IF read THEN atom.time ELSE 0, st.icc_color_desktop_last_time,
                     request)
      writing == renew /\ (attached_profiles(st) > 0 \/ request = 2)
  IN [taking |-> taking,
      giving |-> other /\ ~taking /\ atom.time > st.icc_color_desktop_last_time,
      writing |-> writing,
      switching_off |-> renew /\ ~writing /\ read]

\* the record sprintf( atom_text, "%d %ld %s %s", ... ) makes
atom_text(st) ==
  [state |-> "set", pid |-> Pid(st.proc), time |-> st.now,
   caps |-> IF transform_n(st) > 0
            THEN (IF st.stencilBits # 0 THEN my_capabilities ELSE "|ICM|ICR|ICA|V0.3|")
            ELSE "|V0.3|",
   name |-> my_id]

ApplyDecision(st, request, d) ==
  Emit([st EXCEPT
          !.iccColorDesktop =
             IF d.writing THEN atom_text(st)
             ELSE IF d.switching_off THEN EmptyDesktopAtom
             ELSE IF d.taking THEN NoDesktopAtom
             ELSE @,
          !.notify = IF d.taking \/ d.writing \/ d.switching_off
                     THEN @ \cup {EvDesktop} ELSE @,
          !.colour_desktop_can = IF d.giving \/ d.switching_off THEN 0 ELSE @,
          !.icc_color_desktop_last_time = st.now],
       [kind |-> "check", request |-> request, read |-> st.iccColorDesktop,
        last_time |-> st.icc_color_desktop_last_time, deleted |-> d.taking,
        wrote |-> d.writing, cleared |-> d.switching_off,
        can |-> IF d.giving \/ d.switching_off THEN 0 ELSE st.colour_desktop_can])

SwitchedOff(st) == IF st.colour_desktop_can = 0 THEN DeleteOutputTextures(st) ELSE st

updateIccColorDesktopAtom(st, request) ==
  IF st.colour_desktop_can = 0
  THEN st
  ELSE SwitchedOff(ApplyDecision(st, request, HeartbeatDecision(st, request)))

(***************************************************************************)
(* Color Transform Cache: setupColourTable and cdCreateTexture.            *)
(*                                                                         *)
(* A grid is named by the transform that made it; the engine (Oyranos) is  *)
(* the environment: `svc' says how it answers during one handler.          *)
(***************************************************************************)
SvcOk == {"ok1", "ok2"}
SvcFail == {"no_conversion", "correct_failed", "run_failed"}

\* cicc_alloc zeroes the context: its clut is all zero
ZeroGrid == [src |-> "zero", dst |-> "zero", adv |-> 0, v |-> 0]
\* the quantized identity mapping written before the engine runs
IdentityGrid == [src |-> "identity", dst |-> "identity", adv |-> 0, v |-> 0]
\* what oyConversion_RunPixels leaves in the grid
RunPixels(key, svc) ==
  [src |-> key.src, dst |-> key.dst, adv |-> key.adv, v |-> IF svc = "ok1" THEN 1 ELSE 2]

FreshContext ==
  [src_profile |-> NULL, dst_profile |-> NULL, clut |-> ZeroGrid, glTexture |-> 0]

\* glGenTextures: a name not in use
glGenTextures(names) == CHOOSE n \in 1 .. Cardinality(names) + 1 : n \notin names

\* <<st, ccontext>> after cdCreateTexture( ccontext ): the name the context
\* held before is not deleted
cdCreateTexture(st, ccontext) ==
  LET name == glGenTextures(st.glTextures)
  IN [st |-> Emit([st EXCEPT !.glTextures = @ \cup {name}],
                  [kind |-> "glGenTextures", name |-> name]),
      ccontext |-> [ccontext EXCEPT !.glTexture = name]]

\* the text of the icc node: the resolved transform
hash_text(src_profile, dst_profile, advanced) ==
  [src |-> src_profile, dst |-> dst_profile, adv |-> IF advanced > 0 THEN 1 ELSE 0]

\* the cache look-up of setupColourTable
MutClutNeverCached(cluts, key) == [hit |-> FALSE, clut |-> ZeroGrid]

ClutFromCache(cluts, key) ==
  IF key \in DOMAIN cluts
  THEN [hit |-> TRUE, clut |-> cluts[key]]
  ELSE [hit |-> FALSE, clut |-> ZeroGrid]

setupColourTable(st, ccontext, advanced, svc) ==
  LET web == IF ccontext.dst_profile = NULL THEN Web ELSE NULL
      dst_profile == IF ccontext.dst_profile = NULL THEN Web ELSE ccontext.dst_profile
      src_profile == IF ccontext.src_profile = NULL THEN Web ELSE ccontext.src_profile
      key == hash_text(src_profile, dst_profile, advanced)
      cached == ClutFromCache(st.cluts, key)
  IN IF oyProfile_Equal(ccontext.src_profile, web)
     THEN [st |-> st, ccontext |-> ccontext]                   \* web to web: skipped
     ELSE IF svc \in {"no_conversion", "correct_failed"}
     THEN [st |-> Emit(st, [kind |-> "setupColourTable", key |-> key, hit |-> FALSE,
                            ran |-> FALSE, failed |-> TRUE, clut |-> ccontext.clut]),
           ccontext |-> ccontext]
     ELSE IF cached.hit
     THEN cdCreateTexture(
            Emit(st, [kind |-> "setupColourTable", key |-> key, hit |-> TRUE,
                      ran |-> FALSE, failed |-> FALSE, clut |-> cached.clut]),
            [ccontext EXCEPT !.clut = cached.clut])
     ELSE IF svc = "run_failed"
     THEN [st |-> Emit(st, [kind |-> "setupColourTable", key |-> key, hit |-> FALSE,
                            ran |-> TRUE, failed |-> TRUE, clut |-> IdentityGrid]),
           ccontext |-> [ccontext EXCEPT !.clut = IdentityGrid]]
     ELSE cdCreateTexture(
            Emit([st EXCEPT !.cluts = Store(@, key, RunPixels(key, svc))],
                 [kind |-> "setupColourTable", key |-> key, hit |-> FALSE,
                  ran |-> TRUE, failed |-> FALSE, clut |-> RunPixels(key, svc)]),
            [ccontext EXCEPT !.clut = RunPixels(key, svc)])

getDisplayAdvanced(st) == st.iccDisplayAdvanced

(***************************************************************************)
(* Outputs.  A monitor is what oyDevicesGet lists for it: its EDID and     *)
(* the profile the device query answers with its status (t_err).  Output i *)
(* covers the cells i * OutW .. i * OutW + OutW - 1 of the one-dimensional *)
(* desktop.                                                                *)
(***************************************************************************)
OutW == 2

OutputRect(i) == i * OutW .. i * OutW + OutW - 1

NoAtoms == [icc |-> NULL, device |-> NULL]

FreshOutput == [cc |-> FreshContext, xRect |-> {}]

SetOutput(st, i, output) == [st EXCEPT !.contexts[i + 1] = output]

\* the requests to Oyranos to move or clean the profile atoms: the atoms are
\* written by Oyranos, not by the plug-in
moveICCprofileAtoms(st, screen, init) ==
  Emit(st, [kind |-> "move_color_server_profiles", screen |-> screen, setup |-> init])

cleanDisplayProfiles(st) == Emit(st, [kind |-> "clean_profiles"])

getDeviceProfile(st, screen) ==
  LET device == st.devices[screen + 1]
      atoms == st.iccProfileAtoms[screen + 1]
      \* the device profile atom first, then the normal atom unless it is sRGB
      from_atom ==
        IF atoms.device # NULL \/ atoms.icc = NULL THEN NULL
        ELSE IF oyProfile_Equal(Web, oyProfile_FromMem(atoms.icc)) THEN NULL
        ELSE oyProfile_FromMem(atoms.icc)
      asked == from_atom = NULL
      t_err == IF asked THEN device.t_err ELSE 0
      found == IF asked THEN device.profile ELSE from_atom
      dst_profile ==
        IF found # NULL /\ t_err # 0 /\ oyProfile_Equal(Web, found) THEN NULL ELSE found
  IN SetOutput(st, screen,
       [Ctx(st, screen) EXCEPT !.xRect = OutputRect(screen),
                               !.cc.dst_profile = dst_profile])

\* the context of the output takes what setupColourTable made of it
PutTable(r, screen) == [r.st EXCEPT !.contexts[screen + 1].cc = r.ccontext]

\* the job setupColourTable leaves with Oyranos for iccProgressCallback,
\* unless it skips web to web; the job holds the address ctx of the context
OutputCtx(screen) == <<"output", screen>>
RegionCtx(w, k, j) == <<"region", w, k, j>>

oyJob_New(st, ccontext, ctx) ==
  IF oyProfile_Equal(ccontext.src_profile,
                     IF ccontext.dst_profile = NULL THEN Web ELSE NULL)
  THEN st
  ELSE Emit(st, [kind |-> "oyJob_New", ctx |-> ctx])

SetupTable(st, screen, svc) ==
  PutTable(setupColourTable(oyJob_New(st, Ctx(st, screen).cc, OutputCtx(screen)),
                            Ctx(st, screen).cc, getDisplayAdvanced(st), svc),
           screen)

setupOutputTable(st, screen, svc) ==
  IF st.colour_desktop_can = 0
  THEN st
  ELSE SetupTable([st EXCEPT !.contexts[screen + 1].cc.src_profile = Web], screen, svc)

freeOutput(st) ==
  IF st.nContexts > 0
  THEN [st EXCEPT !.glTextures = @ \ {Ctx(st, i).cc.glTexture : i \in CtxIndices(st)},
                  !.contexts = <<>>]
  ELSE st

setupOutputs(st) ==
  LET st1 == cleanDisplayProfiles(freeOutput(st))
  IN [st1 EXCEPT !.nContexts = st.nOutputDev,
                 !.contexts = [i \in 1 .. st.nOutputDev |-> FreshOutput]]

\* <<st, update>>: the monitors differ from the ones seen last
needUpdate(st) ==
  LET n == Len(st.devices)
      update == \/ n # Len(st.old_devices)
                \/ \E i \in 1 .. n : st.devices[i].edid # st.old_devices[i].edid
  IN [st |-> [st EXCEPT !.old_devices = st.devices], update |-> update]

MoveAtoms(st, i) ==
  IF Ctx(st, i).cc.dst_profile # NULL THEN moveICCprofileAtoms(st, i, 1) ELSE st

\* one round of the loop over the outputs
UpdateOutput(st, init, i, svc) ==
  setupOutputTable(MoveAtoms(IF init THEN getDeviceProfile(st, i) ELSE st, i), i, svc)

RECURSIVE updateOutputs(_, _, _, _, _)
updateOutputs(st, init, screen, svc, i) ==
  IF i >= st.nContexts
  THEN st
  ELSE IF screen >= 0 /\ i # screen
  THEN updateOutputs(st, init, screen, svc, i + 1)
  ELSE updateOutputs(UpdateOutput(st, init, i, svc), init, screen, svc, i + 1)

\* (as the function would be if the heartbeat were written after the loop)
MutUpdateOutputConfigurationLate(st, init, screen, svc) ==
  LET st1 == IF st.colour_desktop_can # 0
             THEN updateOutputs(st, init, screen, svc, 0) ELSE st
  IN IF st.colour_desktop_can # 0 /\ init
     THEN updateIccColorDesktopAtom(st1, 2) ELSE st1

UpdateIfCan(st, init, screen, svc) ==
  IF st.colour_desktop_can # 0 THEN updateOutputs(st, init, screen, svc, 0) ELSE st

updateOutputConfiguration(st, init, screen, svc) ==
  UpdateIfCan(IF st.colour_desktop_can # 0 /\ init
              THEN updateIccColorDesktopAtom(st, 2) ELSE st,
              init, screen, svc)

(***************************************************************************)
(* Window Region Tracker: updateWindowRegions.                             *)
(*                                                                         *)
(* A Region is the set of the cells it covers.  A server-side region is    *)
(* named by a reference; its cells are relative to the window and no one   *)
(* clips them to the window.                                               *)
(***************************************************************************)
RegionTable == <<{0}, {1}, {0, 1}, {1, 2}>>

\* (as it would be if every reference led to the first region)
MutConvertRegionFirst(src) == RegionTable[1]

convertRegion(src) == RegionTable[src]

\* (as the window would be without its last cell)
MutWindowRegionShort(geo) == 0 .. geo.width - 2

windowRegion(geo) == 0 .. geo.width - 1

absoluteRegion(geo, region) == {c + geo.x : c \in region}

HAS_REGIONS(pwin) == pwin.nRegions > 1

XcolorRegionCount(nBytes) == nBytes \div RecordSize

\* the bytes of COLOR_REGIONS: whole records, then perhaps one record that
\* lacks its last byte
nBytesOf(prop) == RecordSize * Len(prop.recs) + (RecordSize - 1) * Len(prop.tail)
RegionRecords(prop) == prop.recs \o prop.tail

NoContexts == [alloc |-> FALSE, ctx |-> <<>>]

\* the textures the loop "free existing data structures" deletes: of
\* cc[0] .. cc[nContexts - 1], up to the first NULL
FreedTextures(st, pwin) ==
  {pwin.pRegion[r].cc.ctx[j].glTexture :
     <<r, j>> \in {x \in (1 .. pwin.nRegions) \X (1 .. st.nContexts) :
                     x[2] <= Len(pwin.pRegion[x[1]].cc.ctx)}}

\* (as cc[j] would be if the profile of the region were never looked up)
MutNewContextNoSource(st, md5, j) ==
  IF Ctx(st, j).cc.dst_profile = NULL
  THEN FreshContext
  ELSE [FreshContext EXCEPT !.dst_profile = Ctx(st, j).cc.dst_profile]

\* cc[j] as allocated and given its profiles
NewContext(st, md5, j) ==
  IF Ctx(st, j).cc.dst_profile = NULL
  THEN FreshContext
  ELSE [FreshContext EXCEPT !.dst_profile = Ctx(st, j).cc.dst_profile,
                            !.src_profile = profileFromMD5(st.profiles, md5)]

\* <<st, ccontext>>: the table of cc[j], if it has a source profile
ColourTableOf(st, c, svc) ==
  IF c.src_profile = NULL
  THEN [st |-> st, ccontext |-> c]
  ELSE setupColourTable(st, c, getDisplayAdvanced(st), svc)

\* <<st, ctx>>: the contexts cc[j] .. of one region
RECURSIVE RegionContexts(_, _, _, _, _)
RECURSIVE NextContext(_, _, _, _, _)
RegionContexts(st, md5, svc, j, ctx) ==
  IF j >= st.nContexts
  THEN [st |-> st, ctx |-> ctx]
  ELSE NextContext(ColourTableOf(st, NewContext(st, md5, j), svc), md5, svc, j, ctx)

NextContext(r, md5, svc, j, ctx) ==
  RegionContexts(r.st, md5, svc, j + 1, Append(ctx, r.ccontext))

\* (as the entry would be if a record with the zero hash got contexts too)
MutRegionEntryZeroOwn(record, ctx) ==
  [md5 |-> record.md5,
   xRegion |-> convertRegion(record.region),
   cc |-> [alloc |-> TRUE, ctx |-> ctx]]

\* pRegion[i] as the loop leaves it: cc stays NULL for the zero hash
RegionEntry(record, ctx) ==
  [md5 |-> record.md5,
   xRegion |-> convertRegion(record.region),
   cc |-> [alloc |-> record.md5 # ZeroMD5, ctx |-> ctx]]

\* <<st, pRegion, wRegion>>: the loop "fill in the possible application region(s)"
RECURSIVE FillRegions(_, _, _, _, _, _)
RECURSIVE NextRegion(_, _, _, _, _, _)
FillRegions(st, records, svc, i, pRegion, wRegion) ==
  IF i > Len(records)
  THEN [st |-> st, pRegion |-> pRegion, wRegion |-> wRegion]
  ELSE NextRegion(IF records[i].md5 # ZeroMD5
                  THEN RegionContexts(st, records[i].md5, svc, 0, <<>>)
                  ELSE [st |-> st, ctx |-> <<>>],
                  records, svc, i, pRegion, wRegion)

NextRegion(r, records, svc, i, pRegion, wRegion) ==
  FillRegions(r.st, records, svc, i + 1,
              Append(pRegion, RegionEntry(records[i], r.ctx)),
              wRegion \ convertRegion(records[i].region))

\* 1 + the records in the bytes of the property, counted with one byte more
RegionCount(prop) ==
  1 + (IF prop.present THEN XcolorRegionCount(nBytesOf(prop) + 1) ELSE 0)

\* the window takes the regions
TakeRegions(st, w, count, width, pRegion) ==
  Emit([st EXCEPT
          !.pw[w].nRegions = count,
          !.pw[w].pRegion = pRegion,
          !.pw[w].active = 1,
          !.pw[w].absoluteWindowRectangleOld = <<0, width>>],
       [kind |-> "updateWindowRegions", w |-> w, count |-> count, width |-> width,
        prop |-> st.iccColorRegions[w],
        regions |-> [k \in 1 .. Len(pRegion) |-> pRegion[k].xRegion],
        md5 |-> [k \in 1 .. Len(pRegion) |-> pRegion[k].md5],
        cc |-> [k \in 1 .. Len(pRegion) |-> pRegion[k].cc]])

\* the remainder of the window is the last region
SetRegions(f, w, count, width) ==
  TakeRegions(f.st, w, count, width,
              Append(f.pRegion,
                     [md5 |-> ZeroMD5, xRegion |-> f.wRegion, cc |-> NoContexts]))

FetchRegions(st, w, svc, count) ==
  SetRegions(FillRegions(st, SubSeq(RegionRecords(st.iccColorRegions[w]), 1, count - 1),
                         svc, 1, <<>>, windowRegion(st.geometry[w])),
             w, count, st.geometry[w].width)

updateWindowRegions(st, w, svc) ==
  FetchRegions([st EXCEPT !.glTextures = @ \ FreedTextures(st, st.pw[w])],
               w, svc, RegionCount(st.iccColorRegions[w]))

(***************************************************************************)
(* Stencil ID allocation: addWindowRegionCount and STENCIL_ID.             *)
(***************************************************************************)
\* (as the macro would be with the regions of a window laid out by output)
MutStencilIdByOutput(region_count, stencil_id_start, i, j) ==
  1 + stencil_id_start + 2 * j + i

STENCIL_ID(region_count, stencil_id_start, i, j) ==
  1 + region_count * i + stencil_id_start + j

\* <<pw, count>> after one window
\* (as it would be if every window started at 0)
MutAddWindowRegionCountFlat(acc, w) ==
  [pw |-> [acc.pw EXCEPT ![w].stencil_id_start = 0],
   count |-> IF HAS_REGIONS(acc.pw[w]) THEN acc.count + acc.pw[w].nRegions
                                       ELSE acc.count]

addWindowRegionCount(acc, w) ==
  IF HAS_REGIONS(acc.pw[w])
  THEN [pw |-> [acc.pw EXCEPT ![w].stencil_id_start = acc.count],
        count |-> acc.count + acc.pw[w].nRegions]
  ELSE [pw |-> [acc.pw EXCEPT ![w].stencil_id_start = 0], count |-> acc.count]

RECURSIVE forEachWindowOnScreen(_, _)
forEachWindowOnScreen(acc, w) ==
  IF w > NWindows THEN acc ELSE forEachWindowOnScreen(addWindowRegionCount(acc, w), w + 1)

\* the block of pluginDrawWindow that recomputes the count and the offsets
Reindexed(st, acc) ==
  Emit([st EXCEPT !.pw = acc.pw, !.colour_desktop_region_count = acc.count],
       [kind |-> "reindex", count |-> acc.count, nContexts |-> st.nContexts,
        start |-> [x \in Windows |-> acc.pw[x].stencil_id_start],
        nRegions |-> [x \in Windows |-> acc.pw[x].nRegions]])

Reindex(st) == Reindexed(st, forEachWindowOnScreen([pw |-> st.pw, count |-> 0], 1))

(***************************************************************************)
(* The draw passes.  A pass appends to the trace one entry for every       *)
(* glStencilFunc it issues; nothing of the plug-in's state changes.        *)
(***************************************************************************)
\* reading cc[i] behind the NULL that ends the array is undefined: the
\* pointer found there may be NULL, or lead to a context with or without a
\* texture name
UBOutcomes == {"null", "texture", "no_texture"}

\* the context the texture pass picks for region j on output i
PickContext(st, pwin, i, j, ub) ==
  LET window_region == pwin.pRegion[j + 1]
      n == Len(window_region.cc.ctx)
      none == [some |-> FALSE, own |-> FALSE, oob |-> FALSE, glTexture |-> 0]
  IN IF j = pwin.nRegions - 1
     THEN IF st.stencilBits = 0 /\ pwin.nRegions > 1
          THEN none
          ELSE [some |-> TRUE, own |-> FALSE, oob |-> FALSE,
                glTexture |-> Ctx(st, i).cc.glTexture]
     ELSE IF ~window_region.cc.alloc \/ i = n
     THEN none
     ELSE IF i < n
     THEN [some |-> TRUE, own |-> TRUE, oob |-> FALSE,
           glTexture |-> window_region.cc.ctx[i + 1].glTexture]
     ELSE [some |-> ub # "null", own |-> TRUE, oob |-> TRUE,
           glTexture |-> IF ub = "texture" THEN 1 ELSE 0]

Intersection(st, w, i, j) ==
  Ctx(st, i).xRect \cap absoluteRegion(st.geometry[w], st.pw[w].pRegion[j + 1].xRegion)

TextureDraw(st, w, i, j, c, intersection) ==
  [kind |-> "texture", w |-> w, i |-> i, j |-> j,
   id |-> STENCIL_ID(st.colour_desktop_region_count, st.pw[w].stencil_id_start, i, j),
   region_count |-> st.colour_desktop_region_count,
   stencil_id_start |-> st.pw[w].stencil_id_start,
   nRegions |-> [x \in Windows |-> st.pw[x].nRegions],
   stencil |-> HAS_REGIONS(st.pw[w]),
   drawn |-> c.some /\ intersection # {},
   corrected |-> c.some /\ intersection # {} /\ c.glTexture # 0,
   attrib |-> IF c.some /\ intersection # {}
              THEN (IF c.glTexture # 0 THEN "fa" ELSE "attrib") ELSE "none",
   some |-> c.some, own |-> c.own, oob |-> c.oob,
   glTexture |-> c.glTexture,
   default |-> Ctx(st, i).cc.glTexture,
   md5 |-> st.pw[w].pRegion[j + 1].md5,
   stencilBits |-> st.stencilBits,
   dst_profile |-> Ctx(st, i).cc.dst_profile,
   cells |-> intersection]

TextureEntry(st, w, i, j, ub) ==
  TextureDraw(st, w, i, j, PickContext(st, st.pw[w], i, j, ub), Intersection(st, w, i, j))

RECURSIVE TextureRegions(_, _, _, _, _)
TextureRegions(st, w, i, j, ub) ==
  IF j >= st.pw[w].nRegions
  THEN <<>>
  ELSE <<TextureEntry(st, w, i, j, ub)>> \o TextureRegions(st, w, i, j + 1, ub)

\* WINDOW_INVISIBLE jumps to the label cleanDrawTexture inside the loop over
\* the regions: the loop goes on from the j it finds, plus one
RECURSIVE TextureOutputs(_, _, _, _)
TextureOutputs(st, w, i, ub) ==
  IF i >= st.nContexts
  THEN <<>>
  ELSE (IF st.geometry[w].invisible
        THEN (IF i = 0 THEN TextureRegions(st, w, i, 1, ub) ELSE <<>>)
        ELSE TextureRegions(st, w, i, 0, ub))
       \o TextureOutputs(st, w, i + 1, ub)

\* glIsEnabled, glEnable and glDisable
glIsEnabled(st, cap) == st.gl[cap]
glEnable(st, cap) == [st EXCEPT !.gl[cap] = TRUE]
glDisable(st, cap) == [st EXCEPT !.gl[cap] = FALSE]

\* (as the end of a callback would be if it left the tests enabled)
MutGlRestoreEnabled(st, cap, use_test) == glEnable(st, cap)

\* if( use_test ) glEnable( cap ); else glDisable( cap );
glRestore(st, cap, use_test) == IF use_test THEN glEnable(st, cap) ELSE glDisable(st, cap)

\* a callback is entered and left with the GL context in some state
HookEntry(st, hook, at, w) ==
  Emit(st, [kind |-> "glState", hook |-> hook, at |-> at, w |-> w, gl |-> st.gl])

\* (as the callback would be without the call of the wrapped function)
MutHostDrawSkipped(st, w, attrib) == st

\* the wrapped drawWindowTexture of the host, with the attributes it is given
HostDrawWindowTexture(st, w, attrib) ==
  Emit(st, [kind |-> "drawWindowTexture", w |-> w, attrib |-> attrib])

\* the GL context as a callback has set it for its passes over window w
HookPasses(st, hook, w) ==
  Emit(st, [kind |-> "glState", hook |-> hook, at |-> "passes", w |-> w, gl |-> st.gl,
            nRegions |-> st.pw[w].nRegions])

\* (as the pass would be if it took the stencil test for every window)
MutTextureEnableStencil(st, w) ==
  HookPasses(glEnable(st, "GL_STENCIL_TEST"), "drawWindowTexture", w)

TextureEnable(st, w) ==
  HookPasses(IF HAS_REGIONS(st.pw[w])
             THEN glEnable(st, "GL_STENCIL_TEST")
             ELSE glEnable(st, "GL_SCISSOR_TEST"),
             "drawWindowTexture", w)

\* the loops over the outputs and the regions, then the tests as they were
TexturePass(st, w, ub, use_stencil_test, use_scissor_test) ==
  glRestore(glRestore([st EXCEPT !.trace = @ \o TextureOutputs(st, w, 0, ub)],
                      "GL_STENCIL_TEST", use_stencil_test),
            "GL_SCISSOR_TEST", use_scissor_test)

TextureHook(st, w, ub) ==
  IF st.pw[w].active = 0
  THEN st
  ELSE TexturePass(TextureEnable(st, w), w, ub,
                   glIsEnabled(st, "GL_STENCIL_TEST"), glIsEnabled(st, "GL_SCISSOR_TEST"))

pluginDrawWindowTexture(st, w, ub) ==
  HookEntry(
    TextureHook(
      HostDrawWindowTexture(HookEntry(st, "drawWindowTexture", "enter", w), w, "attrib"),
      w, ub),
    "drawWindowTexture", "leave", w)

StencilDraw(st, w, i, j, intersection) ==
  [kind |-> "stencil", w |-> w, i |-> i, j |-> j,
   id |-> STENCIL_ID(st.colour_desktop_region_count, st.pw[w].stencil_id_start, i, j),
   region_count |-> st.colour_desktop_region_count,
   stencil_id_start |-> st.pw[w].stencil_id_start,
   nRegions |-> [x \in Windows |-> st.pw[x].nRegions],
   drawn |-> intersection # {},
   cells |-> intersection]

StencilEntry(st, w, i, j) == StencilDraw(st, w, i, j, Intersection(st, w, i, j))

RECURSIVE StencilPass(_, _, _, _)
StencilPass(st, w, i, j) ==
  IF j >= st.pw[w].nRegions
  THEN <<>>
  ELSE IF i >= st.nContexts
  THEN StencilPass(st, w, 0, j + 1)
  ELSE <<StencilEntry(st, w, i, j)>> \o StencilPass(st, w, i + 1, j)

\* the steps of pluginDrawWindow, in the order of the code
DrawCheck(st) ==
  IF st.now - st.icc_color_desktop_last_time > CheckEvery
  THEN updateIccColorDesktopAtom(st, 0) ELSE st

\* tex: the host's drawWindow reaches drawWindowTexture for this window
DrawWrapped(st, w, tex, ub) == IF tex THEN pluginDrawWindowTexture(st, w, ub) ELSE st

DrawInitialise(st, w, svc) ==
  IF st.pw[w].active = 0 THEN updateWindowRegions(st, w, svc) ELSE st

DrawReindex(st) == IF st.colour_desktop_region_count = -1 THEN Reindex(st) ELSE st

DrawResized(st, w, svc) ==
  IF st.geometry[w].width # st.pw[w].absoluteWindowRectangleOld[2]
  THEN updateWindowRegions(st, w, svc) ELSE st

DrawMoved(st, w) ==
  [st EXCEPT !.pw[w].absoluteWindowRectangleOld =
                <<st.geometry[w].x, st.geometry[w].width>>]

StencilDrawn(st, w, use_stencil_test) ==
  glRestore([st EXCEPT !.trace = @ \o StencilPass(st, w, 0, 0)],
            "GL_STENCIL_TEST", use_stencil_test)

DrawStencil(st, w) ==
  IF HAS_REGIONS(st.pw[w])
  THEN StencilDrawn(HookPasses(glEnable(st, "GL_STENCIL_TEST"), "drawWindow", w),
                    w, glIsEnabled(st, "GL_STENCIL_TEST"))
  ELSE HookPasses(st, "drawWindow", w)

DrawSteps(st, w, tex, svc, ub) ==
  DrawStencil(
    DrawMoved(
      DrawResized(
        DrawReindex(
          DrawInitialise(DrawWrapped(DrawCheck(st), w, tex, ub), w, svc)),
        w, svc),
      w),
    w)

pluginDrawWindow(st, w, tex, svc, ub) ==
  HookEntry(DrawSteps(HookEntry(st, "drawWindow", "enter", w), w, tex, svc, ub),
            "drawWindow", "leave", w)

(***************************************************************************)
(* pluginHandleEvent.                                                      *)
(***************************************************************************)
\* a change of _ICC_PROFILE(_xxx): the profile in the atom, unless it is sRGB
ServerProfile(data) ==
  IF data = NULL \/ data = "" \/ oyProfile_Equal(oyProfile_FromMem(data), Web)
  THEN NULL
  ELSE oyProfile_FromMem(data)

TakeServerProfile(st, screen, sp) ==
  IF sp = NULL
  THEN st
  ELSE [st EXCEPT
          !.contexts = IF st.nContexts > screen
                       THEN [@ EXCEPT ![screen + 1].cc.dst_profile = sp] ELSE @,
          !.iccProfileAtoms[screen + 1].device = ""]

IccProfileChanged(st, screen, data, svc) ==
  IF data # NULL /\ data # "" /\ ~oyProfile_Equal(oyProfile_FromMem(data), Web)
  THEN updateOutputConfiguration(TakeServerProfile(st, screen, ServerProfile(data)),
                                 FALSE, screen, svc)
  ELSE st

OutputsChange(r, svc) ==
  IF r.update
  THEN updateOutputConfiguration(setupOutputs(r.st), TRUE, -1, svc)
  ELSE r.st

OutputsChanged(st, svc) == OutputsChange(needUpdate(st), svc)

\* findScreenAtDisplay finds a screen for the events of a root window only
OnRoot(ev) == ev[1] # "COLOR_REGIONS"

Dispatch(st, ev, svc) ==
  CASE ev[1] = "COLOR_PROFILES" -> updateScreenProfiles(st)
    [] ev[1] = "COLOR_REGIONS" ->
         [updateWindowRegions(st, ev[2], svc) EXCEPT !.colour_desktop_region_count = -1]
    [] ev[1] = "COLOR_DESKTOP" -> updateIccColorDesktopAtom(st, 0)
    [] ev[1] = "ICC_PROFILE" ->
         IccProfileChanged(st, ev[2], st.iccProfileAtoms[ev[2] + 1].icc, svc)
    [] ev[1] \in {"NET_DESKTOP_GEOMETRY", "RRNotify"} -> OutputsChanged(st, svc)
    [] ev[1] = "COLOR_DISPLAY_ADVANCED" -> updateOutputConfiguration(st, FALSE, -1, svc)
    [] OTHER -> st

\* the block "initialise" that ends the handler
Initialise(st, ev, svc) ==
  IF OnRoot(ev) /\ st.nOutputDev # st.nContexts
  THEN updateOutputConfiguration(setupOutputs(st), TRUE, -1, svc)
  ELSE st

\* (as the handler would be without its return for a process that deferred)
MutPluginHandleEventGoesOn(st, ev, svc) == Initialise(Dispatch(st, ev, svc), ev, svc)

pluginHandleEvent(st, ev, svc) ==
  IF st.colour_desktop_can = 0
  THEN st
  ELSE Initialise(Dispatch(st, ev, svc), ev, svc)

(***************************************************************************)
(* History: what the properties of the model need to remember.             *)
(***************************************************************************)
\* the entries of a kind in a trace
Entries(trace, kind) == {i \in 1 .. Len(trace) : trace[i].kind = kind}

\* the record a check of the heartbeat read, seen from process p
ReadClass(p, check, cutime) ==
  IF check.read.state # "set" THEN "absent"
  ELSE IF check.read.pid = Pid(p) THEN "own"
  ELSE IF check.read.name = my_id THEN "same_service"
  ELSE IF check.read.time + StaleAfter < cutime THEN "stale_other"
  ELSE "fresh_other"

NoHist ==
  [prevBatch |-> <<>>, prevStore |-> NoEntries, reupload |-> FALSE,
   built |-> [p \in Procs |-> NoEntries],
   runs |-> [p \in Procs |-> NoEntries],
   firstRead |-> [p \in Procs |-> "none"],
   drawn |-> [p \in Procs |-> FALSE],
   evented |-> [p \in Procs |-> FALSE],
   steps |-> [p \in Procs |-> 0],
   jobs |-> [p \in Procs |-> {}],
   disturbed |-> FALSE]

\* the grids the engine computed in a trace, in order
RECURSIVE Built(_, _, _)
Built(built, trace, i) ==
  IF i > Len(trace) THEN built
  ELSE IF trace[i].kind = "setupColourTable" /\ trace[i].ran /\ ~trace[i].failed
          /\ trace[i].key \notin DOMAIN built
  THEN Built(Store(built, trace[i].key, trace[i].clut), trace, i + 1)
  ELSE Built(built, trace, i + 1)

RECURSIVE Runs(_, _, _)
Runs(runs, trace, i) ==
  IF i > Len(trace) THEN runs
  ELSE IF trace[i].kind = "setupColourTable" /\ trace[i].ran /\ ~trace[i].failed
  THEN Runs(Store(runs, trace[i].key, Min(2, (IF trace[i].key \in DOMAIN runs
                                            THEN runs[trace[i].key] ELSE 0) + 1)),
            trace, i + 1)
  ELSE Runs(runs, trace, i + 1)

\* The jobs Oyranos holds for a process: the address of a context each, and
\* whether the context was freed since.  setupOutputs frees the contexts of
\* the outputs, updateWindowRegions the ones of the regions of a window
\* before it makes the new ones; a job that completed on a live context is
\* done, a job on a freed one stays as setupColourTable left it anew.
Job(ctx, freed) == [ctx |-> ctx, freed |-> freed]

RegionJobs(e) ==
  {Job(RegionCtx(e.w, k, j), FALSE) :
     <<k, j>> \in {x \in (1 .. Len(e.cc)) \X (1 .. MaxOutputs) :
                     /\ x[2] <= Len(e.cc[x[1]].ctx)
                     /\ e.cc[x[1]].ctx[x[2]].src_profile # NULL}}

JobsAfterEntry(jobs, e) ==
  CASE e.kind = "oyJob_New" -> jobs \cup {Job(e.ctx, FALSE)}
    [] e.kind = "iccProgressCallback" -> jobs \ {Job(e.ctx, FALSE)}
    [] e.kind = "clean_profiles" ->
         {Job(job.ctx, job.freed \/ job.ctx[1] = "output") : job \in jobs}
    [] e.kind = "updateWindowRegions" ->
         {Job(job.ctx, job.freed \/ (job.ctx[1] = "region" /\ job.ctx[2] = e.w)) :
            job \in jobs} \cup RegionJobs(e)
    [] OTHER -> jobs

RECURSIVE JobsAfter(_, _, _)
JobsAfter(jobs, trace, i) ==
  IF i > Len(trace) THEN jobs
  ELSE JobsAfter(JobsAfterEntry(jobs, trace[i]), trace, i + 1)

\* the history after a handler of process p that ended in st; a
\* specification keeps the history of the kinds it observes
NextHist(p, op, ev, st, kinds) ==
  LET checks == Entries(st.trace, "check")
      profiles == "COLOR_PROFILES" \in kinds /\ ev = EvProfiles
                  /\ iccColorProfiles.present /\ colour_desktop_can[p] # 0
      tables == "setupColourTable" \in kinds
      beats == "check" \in kinds
      flying == "iccProgressCallback" \in kinds
  IN [hist EXCEPT
        !.prevBatch = IF profiles THEN iccColorProfiles.recs ELSE @,
        !.prevStore = IF profiles THEN st.profiles ELSE @,
        !.reupload = profiles /\ iccColorProfiles.recs = hist.prevBatch,
        !.built[p] = IF tables THEN Built(@, st.trace, 1) ELSE @,
        !.runs[p] = IF tables THEN Runs(@, st.trace, 1) ELSE @,
        !.firstRead[p] =
           IF beats /\ @ = "none" /\ checks # {}
           THEN ReadClass(p, st.trace[CHOOSE i \in checks : \A k \in checks : i <= k],
                          now)
           ELSE @,
        !.drawn[p] = @ \/ (beats /\ op = "draw"),
        !.evented[p] = @ \/ (beats /\ op = "event" /\ OnRoot(ev)),
        !.steps[p] = IF beats THEN Min(3, @ + 1) ELSE @,
        !.jobs[p] = IF flying THEN JobsAfter(@, st.trace, 1) ELSE @]

(***************************************************************************)
(* The actions of the plug-in.                                             *)
(***************************************************************************)
\* the entries of the kinds a specification observes
RECURSIVE Observed(_, _)
Observed(trace, kinds) ==
  IF trace = <<>> THEN <<>>
  ELSE (IF Head(trace).kind \in kinds THEN <<Head(trace)>> ELSE <<>>)
       \o Observed(Tail(trace), kinds)

\* the end of a handler of process p: what it wrote, what it leaves to see
\* (nothing in a specification that observes no kind)
Done(p, op, ev, st, kinds) ==
  /\ Commit(p, st)
  /\ pending' = Notified([pending EXCEPT ![p] = @ \ {ev}], st.notify)
  /\ lastOp' = IF kinds = {} THEN NoOp
                ELSE [op |-> op, proc |-> p, event |-> ev,
                      w |-> ev[2],
                      batch |-> IF ev = EvProfiles THEN iccColorProfiles.recs ELSE <<>>,
                      trace |-> Observed(st.trace, kinds)]
  /\ hist' = NextHist(p, op, ev, st, kinds)
  /\ UNCHANGED <<now, loaded, stencilBits, devices, geometry, iccColorRegions,
                 iccDisplayAdvanced>>

\* one event reaches pluginHandleEvent of process p
HandleEvent(p, events, svcs, kinds) ==
  /\ p \in loaded
  /\ Cardinality(glTextures[p]) <= MaxTextures
  /\ \E ev \in events, svc \in svcs :
       /\ ev \in pending[p] \/ ev = EvOther
       /\ Done(p, "event", ev, pluginHandleEvent(State(p), ev, svc), kinds)

\* the host draws window w in process p
EvDraw(w) == <<"draw", w>>

DrawWindow(p, wins, svcs, ubs, gls, kinds) ==
  /\ p \in loaded
  /\ Cardinality(glTextures[p]) <= MaxTextures
  /\ \E w \in wins, tex \in BOOLEAN, svc \in svcs, ub \in ubs, gl \in gls :
       Done(p, "draw", EvDraw(w),
            pluginDrawWindow([State(p) EXCEPT !.gl = gl], w, tex, svc, ub), kinds)

\* the outputs for whose context setupColourTable left a job with
\* iccProgressCallback: it ran on the context and did not skip web to web
Jobs(p) ==
  {i \in 0 .. nContexts[p] - 1 :
     /\ contexts[p][i + 1].cc.src_profile # NULL
     /\ contexts[p][i + 1].cc.dst_profile # NULL}

setupColourTable_cb(st, screen, advanced, svc) ==
  updateOutputConfiguration(
    PutTable(setupColourTable(oyJob_New(st, Ctx(st, screen).cc, OutputCtx(screen)),
                              Ctx(st, screen).cc, advanced, svc),
             screen),
    FALSE, -1, svc)

\* progress in percent
iccProgressCallback(st, progress, screen, advanced, svc) ==
  IF progress >= 100 THEN setupColourTable_cb(st, screen, advanced, svc) ELSE st

EvProgress(screen) == <<"progress", screen>>

\* Oyranos reports the progress of a job of process p
ProgressCallback(p, progresses, advs, svcs, kinds) ==
  /\ p \in loaded
  /\ Cardinality(glTextures[p]) <= MaxTextures
  /\ \E screen \in Jobs(p), progress \in progresses, advanced \in advs, svc \in svcs :
       Done(p, "callback", EvProgress(screen),
            iccProgressCallback(State(p), progress, screen, advanced, svc), kinds)

\* the table of the context cc[j] of region k of window w, made anew
PutRegionTable(r, w, k, j) ==
  [r.st EXCEPT !.pw[w].pRegion[k].cc.ctx[j] = r.ccontext]

SetupRegionTable(st, w, k, j, advanced, svc) ==
  PutRegionTable(
    setupColourTable(oyJob_New(st, st.pw[w].pRegion[k].cc.ctx[j], RegionCtx(w, k, j)),
                     st.pw[w].pRegion[k].cc.ctx[j], advanced, svc),
    w, k, j)

\* a context lives at the address ctx
Lives(st, ctx) ==
  IF ctx[1] = "output"
  THEN ctx[2] < st.nContexts
  ELSE /\ ctx[3] <= Len(st.pw[ctx[2]].pRegion)
       /\ ctx[4] <= Len(st.pw[ctx[2]].pRegion[ctx[3]].cc.ctx)

\* setupColourTable_cb on the context at the address ctx
TableAt(st, ctx, advanced, svc) ==
  IF ctx[1] = "output"
  THEN setupColourTable_cb(st, ctx[2], advanced, svc)
  ELSE updateOutputConfiguration(SetupRegionTable(st, ctx[2], ctx[3], ctx[4], advanced,
                                                  svc),
                                 FALSE, -1, svc)

\* The callback of a job that is complete.  The context of the job may
\* have been freed: what setupColourTable reads and writes at its address
\* is undefined then.  Two of the outcomes: the memory is not in use, the
\* table is lost ("lost"); the memory holds the context that was allocated
\* at the address since, which takes the table ("reused").
JobDone(st, job, advanced, svc, ub) ==
  IF ~job.freed \/ (ub = "reused" /\ Lives(st, job.ctx))
  THEN TableAt(st, job.ctx, advanced, svc)
  ELSE updateOutputConfiguration(st, FALSE, -1, svc)

JobProgress(st, job, progress, advanced, svc, ub) ==
  IF progress >= 100
  THEN JobDone(Emit(st, [kind |-> "iccProgressCallback", ctx |-> job.ctx,
                         freed |-> job.freed]),
               job, advanced, svc, ub)
  ELSE st

\* Oyranos reports the progress of a job it holds for process p
JobCallbackOf(p, progresses, advs, svcs, ubs, kinds) ==
  /\ p \in loaded
  /\ Cardinality(glTextures[p]) <= MaxTextures
  /\ \E job \in hist.jobs[p], progress \in progresses, advanced \in advs,
        svc \in svcs, ub \in ubs :
       Done(p, "callback", EvProgress(job.ctx[2]),
            JobProgress(State(p), job, progress, advanced, svc, ub), kinds)

\* pluginFiniScreen: the heartbeat is emptied, the profile atoms of the
\* outputs with a profile are moved back, the contexts are freed
RECURSIVE FiniOutputs(_, _)
FiniOutputs(st, i) ==
  IF i >= st.nContexts
  THEN st
  ELSE FiniOutputs(IF Ctx(st, i).cc.dst_profile # NULL
                   THEN moveICCprofileAtoms(st, i, 0) ELSE st,
                   i + 1)

pluginFiniScreen(st) ==
  freeOutput(FiniOutputs([st EXCEPT !.iccColorDesktop = EmptyDesktopAtom,
                                    !.notify = @ \cup {EvDesktop}],
                         0))

\* the end of the plug-in in process p, which ended in st
Unloaded(p, st, kinds) ==
  /\ Commit(p, st)
  /\ loaded' = loaded \ {p}
  /\ pending' = [Notified(pending, st.notify) EXCEPT ![p] = {}]
  /\ lastOp' = [op |-> "fini", proc |-> p, event |-> EvOther, w |-> 0,
                batch |-> <<>>, trace |-> Observed(st.trace, kinds)]
  /\ UNCHANGED <<now, stencilBits, devices, geometry, iccColorRegions,
                 iccDisplayAdvanced, hist>>

\* the host unloads the plug-in of process p
FiniScreen(p, kinds) ==
  /\ p \in loaded
  /\ Unloaded(p, pluginFiniScreen(State(p)), kinds)

(***************************************************************************)
(* The actions of the environment.                                         *)
(***************************************************************************)
Env(op) == lastOp' = [NoOp EXCEPT !.op = op]

\* a client replaces COLOR_PROFILES on the root window
ClientPublishProfiles(batches) ==
  /\ \E batch \in batches :
       iccColorProfiles' = [present |-> TRUE, recs |-> batch]
  /\ pending' = Notified(pending, {EvProfiles})
  /\ Env("ClientPublishProfiles")
  /\ UNCHANGED <<now, loaded, stencilBits, devices, geometry, iccColorDesktop,
                 iccColorRegions, iccProfileAtoms, iccDisplayAdvanced, pluginVars,
                 hist>>

\* a client replaces COLOR_REGIONS on its window
ClientSetRegions(wins, payloads) ==
  /\ \E w \in wins, payload \in payloads :
       /\ iccColorRegions' = [iccColorRegions EXCEPT ![w] = payload]
       /\ pending' = Notified(pending, {EvRegions(w)})
  /\ Env("ClientSetRegions")
  /\ UNCHANGED <<now, loaded, stencilBits, devices, geometry, iccColorProfiles,
                 iccColorDesktop, iccProfileAtoms, iccDisplayAdvanced, pluginVars,
                 hist>>

\* the host moves, resizes, hides or shows a window
HostConfigure(wins, geos) ==
  /\ \E w \in wins, geo \in geos :
       /\ geo # geometry[w]
       /\ geometry' = [geometry EXCEPT ![w] = geo]
  /\ Env("HostConfigure")
  /\ UNCHANGED <<now, loaded, stencilBits, devices, iccColorProfiles, iccColorDesktop,
                 iccColorRegions, iccProfileAtoms, iccDisplayAdvanced, pending,
                 pluginVars, hist>>

\* monitors are plugged, unplugged or exchanged
HotPlug(lists) ==
  /\ \E list \in lists :
       /\ list # devices
       /\ devices' = list
  /\ pending' = Notified(pending, {EvRandr})
  /\ Env("HotPlug")
  /\ UNCHANGED <<now, loaded, stencilBits, geometry, iccColorProfiles, iccColorDesktop,
                 iccColorRegions, iccProfileAtoms, iccDisplayAdvanced, pluginVars,
                 hist>>

\* COLOR_DISPLAY_ADVANCED is set on the root window
SetAdvanced(values) ==
  /\ \E v \in values :
       /\ v # iccDisplayAdvanced
       /\ iccDisplayAdvanced' = v
  /\ pending' = Notified(pending, {EvAdvanced})
  /\ Env("SetAdvanced")
  /\ UNCHANGED <<now, loaded, stencilBits, devices, geometry, iccColorProfiles,
                 iccColorDesktop, iccColorRegions, iccProfileAtoms, pluginVars, hist>>

\* a client or Oyranos writes _ICC_PROFILE(_xxx)
SetIccProfile(datas) ==
  /\ \E i \in 1 .. Len(devices), data \in datas :
       /\ iccProfileAtoms' = [iccProfileAtoms EXCEPT ![i].icc = data]
       /\ pending' = Notified(pending, {EvIccProfile(i - 1)})
  /\ Env("SetIccProfile")
  /\ UNCHANGED <<now, loaded, stencilBits, devices, geometry, iccColorProfiles,
                 iccColorDesktop, iccColorRegions, iccDisplayAdvanced, pluginVars,
                 hist>>

\* another colour server writes its record into the heartbeat
ForeignHeartbeat(pids, names) ==
  /\ \E pid \in pids, name \in names :
       iccColorDesktop' = [state |-> "set", pid |-> pid, time |-> now,
                           caps |-> "|V0.3|", name |-> name]
  /\ pending' = Notified(pending, {EvDesktop})
  /\ hist' = [hist EXCEPT !.disturbed = TRUE]
  /\ Env("ForeignHeartbeat")
  /\ UNCHANGED <<now, loaded, stencilBits, devices, geometry, iccColorProfiles,
                 iccColorRegions, iccProfileAtoms, iccDisplayAdvanced, pluginVars>>

\* the other colour server takes its record from the heartbeat
ForeignWithdraw ==
  /\ iccColorDesktop.state = "set"
  /\ iccColorDesktop.pid \notin {Pid(p) : p \in Procs}
  /\ iccColorDesktop' = NoDesktopAtom
  /\ pending' = Notified(pending, {EvDesktop})
  /\ hist' = [hist EXCEPT !.disturbed = TRUE]
  /\ Env("ForeignWithdraw")
  /\ UNCHANGED <<now, loaded, stencilBits, devices, geometry, iccColorProfiles,
                 iccColorRegions, iccProfileAtoms, iccDisplayAdvanced, pluginVars>>

\* a further process loads the plug-in
Load ==
  /\ \E p \in Procs \ loaded : loaded' = loaded \cup {p}
  /\ Env("Load")
  /\ UNCHANGED <<now, stencilBits, devices, geometry, iccColorProfiles, iccColorDesktop,
                 iccColorRegions, iccProfileAtoms, iccDisplayAdvanced, pending,
                 pluginVars, hist>>

\* A second passes.  Times matter through their differences only: when the
\* clock stands at MaxTime the epoch moves instead of the clock, times
\* before the epoch count as 0.
Earlier(t) == IF t > 0 THEN t - 1 ELSE 0

Tick ==
  /\ IF now < MaxTime
     THEN /\ now' = now + 1
          /\ UNCHANGED <<iccColorDesktop, icc_color_desktop_last_time>>
     ELSE /\ now' = now
          /\ iccColorDesktop' = [iccColorDesktop EXCEPT !.time = Earlier(@)]
          /\ icc_color_desktop_last_time' =
               [p \in Procs |-> Earlier(icc_color_desktop_last_time[p])]
  /\ Env("Tick")
  /\ UNCHANGED <<loaded, stencilBits, devices, geometry, iccColorProfiles,
                 iccColorRegions, iccProfileAtoms, iccDisplayAdvanced, pending,
                 colour_desktop_can, colour_desktop_region_count, privates_cache,
                 old_devices, nContexts, contexts, pw, glTextures, hist>>

\* the display delivers events at once and the host draws often: a second
\* passes only when no process waits for a change of the heartbeat and no
\* process that manages the colours is behind with its check of it
Prompt ==
  \A p \in loaded :
    /\ EvDesktop \notin pending[p]
    /\ \/ colour_desktop_can[p] = 0
       \/ now - icc_color_desktop_last_time[p] <= CheckEvery + 1

PromptTick == Prompt /\ Tick

(***************************************************************************)
(* The start: the plug-in is loaded in process Self, no callback ran yet.  *)
(***************************************************************************)
StartTime == MaxTime - 1

\* monitors: with a profile, without one, with the sRGB fallback
DevP == [edid |-> "m1", profile |-> "P1", t_err |-> 0]
DevN == [edid |-> "m2", profile |-> NULL, t_err |-> 1]
DevW == [edid |-> "m3", profile |-> Web, t_err |-> 1]

Geo(x, width, invisible) == [x |-> x, width |-> width, invisible |-> invisible]

InitServer ==
  /\ now = StartTime
  /\ loaded = {Self}
  /\ stencilBits = 8
  /\ devices = <<DevP>>
  /\ geometry = [w \in Windows |-> Geo(0, 2, FALSE)]
  /\ iccColorProfiles = NoProfilesProp
  /\ iccColorDesktop = NoDesktopAtom
  /\ iccColorRegions = [w \in Windows |-> NoRegionsProp]
  /\ iccProfileAtoms = [i \in 1 .. MaxOutputs |-> NoAtoms]
  /\ iccDisplayAdvanced = 0
  /\ pending = [p \in Procs |-> {}]

\* the static variables and what pluginInitScreen and pluginInitWindow set
InitStatics ==
  /\ colour_desktop_can = [p \in Procs |-> 1]
  /\ icc_color_desktop_last_time = [p \in Procs |-> 0]
  /\ colour_desktop_region_count = [p \in Procs |-> -1]
  /\ old_devices = [p \in Procs |-> <<>>]
  /\ nContexts = [p \in Procs |-> 0]
  /\ contexts = [p \in Procs |-> <<>>]
  /\ pw = [p \in Procs |-> [w \in Windows |-> pluginInitWindow]]
  /\ glTextures = [p \in Procs |-> {}]
  /\ lastOp = NoOp
  /\ hist = NoHist

InitPlugin ==
  /\ InitStatics
  /\ privates_cache = [p \in Procs |-> [profiles |-> NoEntries, cluts |-> NoEntries]]

(***************************************************************************)
(* SpecStore: clients publish profiles, the plug-in stores them.           *)
(***************************************************************************)
XcolorProfileOf(md5, data) ==
  [md5 |-> md5, length |-> IF data = "" THEN 0 ELSE 1, data |-> data]

XcolorProfiles ==
  {XcolorProfileOf(HashA, "P1"), XcolorProfileOf(HashA, "P2"),
   XcolorProfileOf(HashB, "P1"), XcolorProfileOf(HashA, ""),
   XcolorProfileOf(HashC, BadBytes)}

Batches == UNION {[1 .. n -> XcolorProfiles] : n \in 1 .. MaxBatch}

InitStore == InitServer /\ InitPlugin

StoreEvents == {EvProfiles, EvDesktop, EvOther}

StoreEvent == HandleEvent(Self, StoreEvents, {"ok1"}, {"COLOR_PROFILES"})

StorePublish == ClientPublishProfiles(Batches)

NextStore == StorePublish \/ StoreEvent

SpecStore == InitStore /\ [][NextStore]_vars

\* the last step was the handler of COLOR_PROFILES reading a payload
ProfilesHandled ==
  /\ lastOp.op = "event"
  /\ lastOp.event = EvProfiles
  /\ lastOp.batch # <<>>

\* C4: after the handler of COLOR_PROFILES read a payload, a hash whose last
\* record in the payload has length 0 has no profile in the store (the
\* payloads considered are those the handler reads to their end)
C4_ZeroLengthRemoves ==
  ProfilesHandled =>
    \A i \in 1 .. Len(lastOp.batch) :
      (/\ lastOp.batch[i].length = 0
       /\ \A k \in 1 .. Len(lastOp.batch) : lastOp.batch[k].data # BadBytes
       /\ \A k \in i + 1 .. Len(lastOp.batch) :
            md5string(lastOp.batch[k].md5) # md5string(lastOp.batch[i].md5))
      => profileFromMD5(privates_cache[lastOp.proc].profiles, lastOp.batch[i].md5) = NULL

\* C5: handling a payload a second time in a row leaves the store as the
\* first handling left it, and storing any batch into the store twice gives
\* what storing it once gives
C5_UploadIdempotent ==
  /\ hist.reupload => privates_cache[Self].profiles = hist.prevStore
  /\ \A batch \in Batches :
       LET once == StoreProfiles(privates_cache[Self].profiles, batch, 1)
       IN StoreProfiles(once, batch, 1) = once

\* a payload with a well-formed profile was handled twice in a row
C5_Witness ==
  /\ ProfilesHandled
  /\ hist.reupload
  /\ \E i \in 1 .. Len(lastOp.batch) :
       /\ lastOp.batch[i].length # 0
       /\ profileFromMD5(privates_cache[Self].profiles, lastOp.batch[i].md5)
            = lastOp.batch[i].data

(***************************************************************************)
(* SpecCache: the output and the regions of a window ask for colour tables *)
(* while profiles, regions and the advanced option change and the engine   *)
(* answers as it likes.                                                    *)
(***************************************************************************)
XcolorRegionOf(ref, md5) == [region |-> ref, md5 |-> md5]

Regions(recs, tail) == [present |-> TRUE, recs |-> recs, tail |-> tail]

CachePayloads == {NoRegionsProp, Regions(<<XcolorRegionOf(1, HashA)>>, <<>>)}

CacheEvents == {EvAdvanced, EvRegions(1), EvOther}

CacheSvc == {"ok1", "ok2", "correct_failed", "run_failed"}

\* a client has published a profile under HashA and the plug-in stored it
InitCache ==
  /\ InitServer
  /\ InitStatics
  /\ privates_cache =
       [p \in Procs |->
          [profiles |-> StoreProfiles(NoEntries,
                                      <<[md5 |-> HashA, length |-> 1, data |-> "P2"]>>, 1),
           cluts |-> NoEntries]]

CacheRegions == ClientSetRegions({1}, CachePayloads)

\* the values of _ICC_COLOR_DISPLAY_ADVANCED
AdvancedValues == {0, 1}

CacheAdvanced == SetAdvanced(AdvancedValues)

CacheEvent == HandleEvent(Self, CacheEvents, CacheSvc, {"setupColourTable"})

NextCache == CacheRegions \/ CacheAdvanced \/ CacheEvent

SpecCache == InitCache /\ [][NextCache]_vars

\* the requests of the last handler that the cache answered
CacheHits ==
  {i \in Entries(lastOp.trace, "setupColourTable") : lastOp.trace[i].hit}

\* C6: a grid the engine computed and the cache took stays in the cache
\* under its key unchanged, the engine never computes the grid of a key
\* again, and a request that the cache answers gets the grid first stored
C6_CacheKeepsGrids ==
  \A p \in Procs :
    /\ \A key \in DOMAIN hist.built[p] :
         /\ key \in DOMAIN privates_cache[p].cluts
         /\ privates_cache[p].cluts[key] = hist.built[p][key]
         /\ hist.runs[p][key] = 1
    /\ lastOp.proc = p =>
         \A i \in CacheHits :
           /\ ~lastOp.trace[i].ran
           /\ lastOp.trace[i].key \in DOMAIN hist.built[p]
           /\ lastOp.trace[i].clut = hist.built[p][lastOp.trace[i].key]

\* a request was answered from the cache
C6_Witness == CacheHits # {}

(***************************************************************************)
(* SpecBeat: one process starts and runs beside what another colour server *)
(* left in the heartbeat or writes into it.                                *)
(***************************************************************************)
OtherPid == NProcs + 7

Record(pid, time, name) ==
  [state |-> "set", pid |-> pid, time |-> time, caps |-> "|V0.3|", name |-> name]

BeatRecords ==
  {NoDesktopAtom,
   Record(Pid(Self), StartTime - 5, my_id),
   Record(OtherPid, StartTime - StaleAfter - 1, "other"),
   Record(OtherPid, StartTime - 3, "other"),
   Record(OtherPid, StartTime - 3, "kolorserver")}

InitBeat ==
  /\ now = StartTime
  /\ loaded = {Self}
  /\ stencilBits = 8
  /\ devices \in {<<DevP>>, <<DevN>>}
  /\ geometry = [w \in Windows |-> Geo(0, 2, FALSE)]
  /\ iccColorProfiles = NoProfilesProp
  /\ iccColorDesktop \in BeatRecords
  /\ iccColorRegions = [w \in Windows |-> NoRegionsProp]
  /\ iccProfileAtoms = [i \in 1 .. MaxOutputs |-> NoAtoms]
  /\ iccDisplayAdvanced = 0
  /\ pending = [p \in Procs |-> {}]
  /\ InitPlugin

BeatDraw == DrawWindow(Self, {1}, {"ok1"}, {"null"}, {GLDisabled}, {"check"})

BeatEvents == {EvDesktop, EvOther}

BeatEvent == HandleEvent(Self, BeatEvents, {"ok1"}, {"check"})

BeatForeign == ForeignHeartbeat({OtherPid}, {"other"})

NextBeat == BeatDraw \/ BeatEvent \/ BeatForeign \/ PromptTick

SpecBeat == InitBeat /\ [][NextBeat]_vars

\* process p is the owner: it manages the colours and the heartbeat carries
\* its record
Owned(p) ==
  /\ colour_desktop_can[p] = 1
  /\ iccColorDesktop.state = "set"
  /\ iccColorDesktop.pid = Pid(p)
  /\ iccColorDesktop.name = my_id

\* the first draw callback and the first display event of p have run, in
\* either order, and nothing else
Started(p) == hist.drawn[p] /\ hist.evented[p] /\ hist.steps[p] = 2

\* C8: once the first draw callback and the first display event of a
\* process have run, in either order, the process is the owner if the
\* heartbeat it read first was absent, carried its own pid or was the record
\* of another service more than 60 old, and no one else wrote the heartbeat
\* meanwhile; if the event ran last, the record carries the current time
C8_StartsOwned ==
  \A p \in loaded :
    (/\ Started(p)
     /\ ~hist.disturbed
     /\ hist.firstRead[p] \in {"absent", "own", "stale_other"})
    => /\ Owned(p)
       /\ (lastOp.proc = p /\ lastOp.op = "event") => iccColorDesktop.time = now

\* the checks of the heartbeat in the last handler
Checks == {lastOp.trace[i] : i \in Entries(lastOp.trace, "check")}

\* the record a check read is of another process and another service (not
\* kolorserver) and later than the last observation
FreshForeign(p, check) ==
  /\ check.read.state = "set"
  /\ check.read.pid # Pid(p)
  /\ check.read.name \notin {my_id, "kolorserver"}
  /\ check.read.time > check.last_time

\* C9: a check that reads a fresh record of another service neither deletes
\* nor overwrites the record, and the process does not manage the colours
\* after it
C9_DefersToFresh ==
  \A check \in Checks :
    FreshForeign(lastOp.proc, check)
      => ~check.deleted /\ ~check.wrote /\ check.can = 0

(***************************************************************************)
(* SpecDuel: several processes run the plug-in on one display, each on a   *)
(* monitor with a profile.  FairDuel adds that every process is started    *)
(* and that the clock goes on for ever; a second passes only when the      *)
(* events are delivered and the checks that are due are done (Prompt), so  *)
(* every process gets its events and draws again and again.                *)
(***************************************************************************)
InitDuel == InitServer /\ InitPlugin

DuelDraw(p) == DrawWindow(p, {1}, {"ok1"}, {"null"}, {GLDisabled}, {})

DuelEvent(p) == HandleEvent(p, BeatEvents, {"ok1"}, {})

NextDuel == Load \/ PromptTick \/ \E p \in Procs : DuelDraw(p) \/ DuelEvent(p)

SpecDuel == InitDuel /\ [][NextDuel]_vars

FairDuel ==
  /\ SpecDuel
  /\ WF_vars(Load)
  /\ []<><<PromptTick>>_vars

\* process p corrects colours: it has set up its outputs, holds a colour
\* table for one of them and has not given the service away
Active(p) ==
  /\ p \in loaded
  /\ colour_desktop_can[p] = 1
  /\ \E i \in 1 .. nContexts[p] : contexts[p][i].cc.glTexture # 0

\* C10: whatever the processes do, again and again at most one of them is
\* active: two processes do not stay active together for ever
C10_ConflictsResolve == []<>(Cardinality({p \in Procs : Active(p)}) <= 1)

(***************************************************************************)
(* SpecIndex: two windows on two outputs; clients change the regions of    *)
(* the windows, the host resizes and draws them.                           *)
(***************************************************************************)
IndexPayloads ==
  {NoRegionsProp,
   Regions(<<XcolorRegionOf(1, ZeroMD5)>>, <<>>),
   Regions(<<XcolorRegionOf(1, ZeroMD5), XcolorRegionOf(2, ZeroMD5)>>, <<>>)}

IndexKinds == {"reindex", "texture", "stencil"}

InitIndex ==
  /\ now = StartTime
  /\ loaded = {Self}
  /\ stencilBits = 8
  /\ devices = <<DevP, DevN>>
  /\ geometry = [w \in Windows |-> Geo(0, 2, FALSE)]
  /\ iccColorProfiles = NoProfilesProp
  /\ iccColorDesktop = NoDesktopAtom
  /\ iccColorRegions = [w \in Windows |-> NoRegionsProp]
  /\ iccProfileAtoms = [i \in 1 .. MaxOutputs |-> NoAtoms]
  /\ iccDisplayAdvanced = 0
  /\ pending = [p \in Procs |-> {}]
  /\ InitPlugin

IndexRegions == ClientSetRegions(Windows, IndexPayloads)

IndexGeos == {Geo(0, 2, FALSE), Geo(0, 3, FALSE)}

IndexResize == HostConfigure({1}, IndexGeos)

IndexEvents == {EvRegions(w) : w \in Windows} \cup {EvOther}

IndexEvent == HandleEvent(Self, IndexEvents, {"ok1"}, IndexKinds)

IndexDraw == DrawWindow(Self, Windows, {"ok1"}, UBOutcomes, {GLDisabled}, IndexKinds)

NextIndex == IndexRegions \/ IndexResize \/ IndexEvent \/ IndexDraw

SpecIndex == InitIndex /\ [][NextIndex]_vars

\* the reindexes of the last handler
Reindexes == {lastOp.trace[k] : k \in Entries(lastOp.trace, "reindex")}

\* the triples <<window, region, output>> that get a stencil ID
Triples(e) ==
  UNION {{<<w, j, i>> : j \in 0 .. e.nRegions[w] - 1, i \in 0 .. e.nContexts - 1} :
           w \in {x \in Windows : e.nRegions[x] > 1}}

IdOf(e, t) == STENCIL_ID(e.count, e.start[t[1]], t[3], t[2])

\* C1: with the count and the offsets a reindex has just computed, the
\* stencil IDs of two different triples (window with more than one region,
\* region of the window, output) differ and every such ID is at least 1
C1_ReindexInjective ==
  \A e \in Reindexes :
    \A s \in Triples(e), t \in Triples(e) :
      /\ IdOf(e, s) >= 1
      /\ s # t => IdOf(e, s) # IdOf(e, t)

\* a reindex found two windows with more than one region on two outputs
C1_Witness ==
  \E e \in Reindexes :
    /\ e.nContexts >= 2
    /\ \A w \in Windows : e.nRegions[w] > 1

\* what a reindex computes from the region counts n of the windows: the
\* regions of the windows with more than one region among 1 .. w
RECURSIVE RegionTotal(_, _)
RegionTotal(n, w) ==
  IF w = 0 THEN 0
  ELSE RegionTotal(n, w - 1) + (IF n[w] > 1 THEN n[w] ELSE 0)

RegionBase(n, w) == IF n[w] > 1 THEN RegionTotal(n, w - 1) ELSE 0

\* the passes of the last handler that work with stencil IDs
StencilUses ==
  {lastOp.trace[k] : k \in Entries(lastOp.trace, "stencil")}
    \cup {e \in {lastOp.trace[k] : k \in Entries(lastOp.trace, "texture")} : e.stencil}

\* C2: a pass never draws with a stencil ID made from a count or an offset
\* older than the last change of a region count: the ID it draws with is
\* the one that the count and the offset of the region counts the windows
\* have when the pass runs give
C2_ReindexBarrier ==
  \A e \in StencilUses :
    e.drawn => e.id = STENCIL_ID(RegionTotal(e.nRegions, NWindows),
                                 RegionBase(e.nRegions, e.w), e.i, e.j)

(***************************************************************************)
(* SpecRegion: one window with regions that carry a profile, while the     *)
(* window is resized and hidden and the monitor is exchanged.              *)
(***************************************************************************)
RegionPayloads ==
  {NoRegionsProp,
   Regions(<<XcolorRegionOf(1, HashA)>>, <<>>),
   Regions(<<XcolorRegionOf(3, HashA), XcolorRegionOf(4, ZeroMD5)>>, <<>>)}

RegionGeos == {Geo(0, 2, FALSE), Geo(0, 3, FALSE), Geo(0, 2, TRUE)}

RegionKinds == {"updateWindowRegions", "texture"}

InitRegion == InitCache

RegionRegions == ClientSetRegions({1}, RegionPayloads)

RegionConfigure == HostConfigure({1}, RegionGeos)

RegionDevices == {<<DevP>>, <<DevW>>}

RegionHotPlug == HotPlug(RegionDevices)

RegionEvents == {EvRegions(1), EvRandr, EvOther}

RegionEvent == HandleEvent(Self, RegionEvents, {"ok1"}, RegionKinds)

RegionDraw == DrawWindow(Self, {1}, {"ok1"}, UBOutcomes, {GLDisabled}, RegionKinds)

NextRegionSpec ==
  RegionRegions \/ RegionConfigure \/ RegionHotPlug \/ RegionEvent \/ RegionDraw

SpecRegion == InitRegion /\ [][NextRegionSpec]_vars

\* the region updates of the last handler
Updates == {lastOp.trace[k] : k \in Entries(lastOp.trace, "updateWindowRegions")}

Explicit(e) == UNION {e.regions[k] : k \in 1 .. Len(e.regions) - 1}

\* C3 as claimed: after a region update the regions of the window together
\* are exactly the rectangle of the window and no two of them overlap
C3_Partition ==
  \A e \in Updates :
    /\ UNION {e.regions[k] : k \in 1 .. Len(e.regions)} = 0 .. e.width - 1
    /\ \A a \in 1 .. Len(e.regions), b \in 1 .. Len(e.regions) :
         a # b => e.regions[a] \cap e.regions[b] = {}

\* C3: after a region update the last region of the window is exactly the
\* rectangle of the window without the explicit regions: the regions
\* together cover the window and the remainder overlaps no explicit region
C3_Remainder ==
  \A e \in Updates :
    /\ e.count = Len(e.regions)
    /\ e.regions[e.count] = (0 .. e.width - 1) \ Explicit(e)
    /\ 0 .. e.width - 1 \subseteq UNION {e.regions[k] : k \in 1 .. e.count}
    /\ e.regions[e.count] \cap Explicit(e) = {}

\* an update took two explicit regions that overlap and reach out of the window
C3_Witness ==
  \E e \in Updates :
    /\ e.count = 3
    /\ e.regions[1] \cap e.regions[2] # {}
    /\ ~(Explicit(e) \subseteq 0 .. e.width - 1)

\* the draws of the texture pass in the last handler
TextureDraws == {lastOp.trace[k] : k \in Entries(lastOp.trace, "texture")}

\* C7: the texture pass draws nothing with the shader on an output that has
\* no destination profile (left aside what it does with a pointer read
\* behind the end of the contexts of a region)
C7_NoProfileNoShader ==
  \A e \in TextureDraws :
    (e.dst_profile = NULL /\ ~e.oob) => ~e.corrected

(***************************************************************************)
(* SpecRenew: one process alone on the display; the host draws a window    *)
(* and delivers the events while the seconds pass (PromptTick: no check    *)
(* that is due is left undone when a second passes).                       *)
(***************************************************************************)
InitRenew == InitServer /\ InitPlugin

RenewDraw == DrawWindow(Self, {1}, {"ok1"}, {"null"}, {GLDisabled}, {"check"})

RenewEvent == HandleEvent(Self, BeatEvents, {"ok1"}, {"check"})

NextRenew == RenewDraw \/ RenewEvent \/ PromptTick

SpecRenew == InitRenew /\ [][NextRenew]_vars

\* the record a check read is the one this process wrote last
OwnRecord(p, check) ==
  /\ check.read.state = "set"
  /\ check.read.pid = Pid(p)
  /\ check.read.name = my_id

\* C11: when the owner writes its record over the record it wrote before,
\* the two time stamps are at most 10 apart
C11_RenewsWithinTen ==
  \A check \in Checks :
    (check.wrote /\ check.can = 1 /\ OwnRecord(lastOp.proc, check))
      => now - check.read.time <= CheckEvery

(***************************************************************************)
(* SpecDefer: the process corrects a window with a region that carries a   *)
(* profile; another colour server writes its record into the heartbeat.    *)
(***************************************************************************)
DeferKinds == {"texture", "setupColourTable", "glGenTextures"}

InitDefer == InitCache

DeferRegions == ClientSetRegions({1}, CachePayloads)

DeferResize == HostConfigure({1}, IndexGeos)

DeferForeign == ForeignHeartbeat({OtherPid}, {"other"})

DeferEvents == {EvRegions(1), EvDesktop, EvOther}

DeferEvent == HandleEvent(Self, DeferEvents, {"ok1"}, DeferKinds)

DeferDraw == DrawWindow(Self, {1}, {"ok1"}, {"null"}, {GLDisabled}, DeferKinds)

\* the seconds of this specification end with the epoch
DeferTick == now < MaxTime /\ PromptTick

NextDefer ==
  DeferRegions \/ DeferResize \/ DeferForeign \/ DeferEvent \/ DeferDraw \/ DeferTick

SpecDefer == InitDefer /\ [][NextDefer]_vars

\* process p has deferred: it gave the service up and the heartbeat carries
\* the record of another service
Deferred(p) ==
  /\ colour_desktop_can[p] = 0
  /\ iccColorDesktop.state = "set"
  /\ iccColorDesktop.pid # Pid(p)
  /\ iccColorDesktop.name # my_id

\* C12: a draw callback of a process that has deferred (before the callback
\* or in the check that begins it) draws nothing with the shader and makes
\* no colour table and no texture
C12_DeferredNoCorrection ==
  (lastOp.op = "draw" /\ Deferred(lastOp.proc))
    => /\ \A e \in TextureDraws : ~e.corrected
       /\ Entries(lastOp.trace, "setupColourTable") = {}
       /\ Entries(lastOp.trace, "glGenTextures") = {}

(***************************************************************************)
(* The order of the passes in one draw of a window (SpecIndex).            *)
(***************************************************************************)
\* the texture pass tests of the last handler that draw under the stencil
\* test, by their place in the handler
StencilTests ==
  {k \in Entries(lastOp.trace, "texture") : lastOp.trace[k].stencil /\ lastOp.trace[k].drawn}

\* the stencil pass filled the ID of entry k before the entry
FilledBefore(k) ==
  \E f \in Entries(lastOp.trace, "stencil") :
    /\ f < k
    /\ lastOp.trace[f].drawn
    /\ lastOp.trace[f].w = lastOp.trace[k].w
    /\ lastOp.trace[f].id = lastOp.trace[k].id

\* C13: in one draw of a window with explicit regions, the texture pass
\* tests the stencil buffer against an ID only after the stencil pass of
\* the same draw has filled that ID
C13_StencilBeforeTexture == \A k \in StencilTests : FilledBefore(k)

(***************************************************************************)
(* SpecGL: the host draws a window on two outputs, one with and one        *)
(* without a profile, with the stencil and the scissor test in any state,  *)
(* on a GL context with or without stencil bits; the regions and the       *)
(* geometry of the window change.                                          *)
(***************************************************************************)
GLKinds == {"glState", "drawWindowTexture", "texture", "stencil"}

InitGL ==
  /\ now = StartTime
  /\ loaded = {Self}
  /\ stencilBits \in {0, 8}
  /\ devices = <<DevP, DevN>>
  /\ geometry = [w \in Windows |-> Geo(0, 2, FALSE)]
  /\ iccColorProfiles = NoProfilesProp
  /\ iccColorDesktop = NoDesktopAtom
  /\ iccColorRegions = [w \in Windows |-> NoRegionsProp]
  /\ iccProfileAtoms = [i \in 1 .. MaxOutputs |-> NoAtoms]
  /\ iccDisplayAdvanced = 0
  /\ pending = [p \in Procs |-> {}]
  /\ InitStatics
  /\ privates_cache =
       [p \in Procs |->
          [profiles |-> StoreProfiles(NoEntries,
                                      <<[md5 |-> HashA, length |-> 1, data |-> "P2"]>>, 1),
           cluts |-> NoEntries]]

GLRegions == ClientSetRegions({1}, RegionPayloads)

GLConfigure == HostConfigure({1}, RegionGeos)

GLEvents == {EvRegions(1), EvOther}

GLEvent == HandleEvent(Self, GLEvents, {"ok1"}, GLKinds)

GLDraw == DrawWindow(Self, {1}, {"ok1"}, UBOutcomes, GLStates, GLKinds)

NextGL == GLRegions \/ GLConfigure \/ GLEvent \/ GLDraw

SpecGL == InitGL /\ [][NextGL]_vars

\* the states of the GL context in which the last handler entered or left
\* a callback
HookStates(hook, at) ==
  {lastOp.trace[k].gl :
     k \in {x \in Entries(lastOp.trace, "glState") :
              lastOp.trace[x].hook = hook /\ lastOp.trace[x].at = at}}

\* C14: pluginDrawWindow and pluginDrawWindowTexture leave the stencil test
\* and the scissor test enabled or disabled as they found them
C14_TestsRestored ==
  \A hook \in {"drawWindow", "drawWindowTexture"} :
    /\ HookStates(hook, "enter") # {} => HookStates(hook, "leave") # {}
    /\ \A a \in HookStates(hook, "enter"), b \in HookStates(hook, "leave") : a = b

\* a window with explicit regions went through both passes of a draw that
\* began with the stencil test disabled and the scissor test enabled
C14_Witness ==
  /\ HookStates("drawWindow", "enter")
       = {[GL_STENCIL_TEST |-> FALSE, GL_SCISSOR_TEST |-> TRUE]}
  /\ HookStates("drawWindowTexture", "leave") # {}
  /\ StencilTests # {}
  /\ \E f \in Entries(lastOp.trace, "stencil") : lastOp.trace[f].drawn

\* the calls of pluginDrawWindowTexture in the last handler
TextureHooks ==
  {k \in Entries(lastOp.trace, "glState") :
     lastOp.trace[k].hook = "drawWindowTexture" /\ lastOp.trace[k].at = "enter"}

\* C15: every call of pluginDrawWindowTexture calls the host's
\* drawWindowTexture with the attributes it was given, and the texture pass
\* draws a region on an output whose context has no texture with the
\* attributes it was given
C15_NeverBlocksDrawing ==
  /\ \A k \in TextureHooks :
       \E d \in Entries(lastOp.trace, "drawWindowTexture") :
         /\ d > k
         /\ lastOp.trace[d].w = lastOp.trace[k].w
         /\ lastOp.trace[d].attrib = "attrib"
  /\ \A e \in TextureDraws :
       (e.drawn /\ e.glTexture = 0) => e.attrib = "attrib"

\* a pass drew a region on an output whose context has no texture
C15_Witness ==
  /\ TextureHooks # {}
  /\ \E e \in TextureDraws : e.drawn /\ e.glTexture = 0 /\ e.default = 0

\* C20: on a GL context without stencil bits the texture pass of a window
\* with explicit regions draws no explicit region and draws the remainder,
\* where it meets the output, with the colour table of the output
C20_NoStencilRemainderOnly ==
  \A e \in TextureDraws :
    (e.stencilBits = 0 /\ e.stencil)
      => IF e.j < e.nRegions[e.w] - 1
         THEN ~e.drawn
         ELSE e.cells # {} => (e.drawn /\ e.glTexture = e.default)

(***************************************************************************)
(* The colour table the texture pass picks (SpecRegion).                   *)
(***************************************************************************)
\* C16: where a region meets an output, the texture pass takes for a region
\* declared with a hash that is not zero no other context than the
\* region's own for the output, and for a region without a profile of its
\* own (the remainder and the regions declared with the zero hash) the
\* context and texture of the output
C16_LutByProfile ==
  \A e \in TextureDraws :
    e.cells # {} =>
      IF e.md5 # ZeroMD5
      THEN e.some => e.own
      ELSE e.some /\ ~e.own /\ e.glTexture = e.default

(***************************************************************************)
(* SpecLate: a client declares a region of a window with a hash and        *)
(* uploads the profile of the hash before or after, while monitors come    *)
(* and go and the window is resized and drawn.                             *)
(***************************************************************************)
LateKinds == {"updateWindowRegions"}

InitLate == InitServer /\ InitPlugin

LateRegions == ClientSetRegions({1}, CachePayloads)

LateBatches == {<<XcolorProfileOf(HashA, "P2")>>}

LatePublish == ClientPublishProfiles(LateBatches)

LateResize == HostConfigure({1}, IndexGeos)

LateDevices == {<<DevP>>, <<DevP, DevN>>}

LateHotPlug == HotPlug(LateDevices)

LateEvents == {EvProfiles, EvRegions(1), EvRandr, EvOther}

LateEvent == HandleEvent(Self, LateEvents, {"ok1"}, LateKinds)

LateDraw == DrawWindow(Self, {1}, {"ok1"}, {"null"}, {GLDisabled}, LateKinds)

NextLate ==
  LateRegions \/ LatePublish \/ LateResize \/ LateHotPlug \/ LateEvent \/ LateDraw

SpecLate == InitLate /\ [][NextLate]_vars

\* the contexts of the regions of window w that were declared with a hash
RegionContextsOf(p, w) ==
  {<<k, j>> \in (1 .. Len(pw[p][w].pRegion)) \X (1 .. MaxOutputs) :
     pw[p][w].pRegion[k].md5 # ZeroMD5 /\ j <= Len(pw[p][w].pRegion[k].cc.ctx)}

RegionContext(p, w, x) == pw[p][w].pRegion[x[1]].cc.ctx[x[2]]

\* a context without source profile carries no transform
NoSourceNoTransform ==
  \A w \in Windows : \A x \in RegionContextsOf(Self, w) :
    RegionContext(Self, w, x).src_profile = NULL
      => /\ RegionContext(Self, w, x).glTexture = 0
         /\ RegionContext(Self, w, x).clut = ZeroGrid

\* the windows whose region list the last handler rebuilt
Rebuilt == {e.w : e \in Updates}

\* after a rebuild every context of a region on an output with a profile
\* has the profile the store holds for the hash of the region, or none if
\* the store holds none, and with the profile the transform from it to the
\* profile of the output
RebuiltFromStore ==
  \A w \in Rebuilt : \A x \in RegionContextsOf(Self, w) :
    contexts[Self][x[2]].cc.dst_profile # NULL =>
      /\ RegionContext(Self, w, x).src_profile
           = profileFromMD5(privates_cache[Self].profiles, pw[Self][w].pRegion[x[1]].md5)
      /\ RegionContext(Self, w, x).src_profile # NULL =>
           /\ RegionContext(Self, w, x).glTexture # 0
           /\ RegionContext(Self, w, x).clut.src = RegionContext(Self, w, x).src_profile
           /\ RegionContext(Self, w, x).clut.dst = contexts[Self][x[2]].cc.dst_profile

\* a step that does not rebuild the region list of a window leaves it alone
KeptUntilRebuilt ==
  \A w \in Windows :
    (\A k \in Entries(lastOp'.trace, "updateWindowRegions") : lastOp'.trace[k].w # w)
      => pw'[Self][w].pRegion = pw[Self][w].pRegion

\* C17: a region declared with a hash the store holds no profile for has no
\* transform on any output, the upload of the profile does not change that,
\* nor does any step but a rebuild of the region list of the window; a
\* rebuild gives the region the transform from the stored profile on every
\* output that has a profile (the engine answering)
C17_LateProfile ==
  /\ [](NoSourceNoTransform /\ RebuiltFromStore)
  /\ [][KeptUntilRebuilt]_vars

\* the profile of a declared region was uploaded and stored after the
\* declaration: the region is still without source profile
C17_Witness ==
  /\ lastOp.op = "event"
  /\ lastOp.event = EvProfiles
  /\ profileFromMD5(privates_cache[Self].profiles, HashA) # NULL
  /\ \E x \in RegionContextsOf(Self, 1) :
       /\ contexts[Self][x[2]].cc.dst_profile # NULL
       /\ RegionContext(Self, 1, x).src_profile = NULL

(***************************************************************************)
(* What a region update makes of the property it reads (SpecRegion).       *)
(***************************************************************************)
\* C18: an update of a window without COLOR_REGIONS gives the window one
\* region, its whole rectangle, with the zero hash and no contexts, and
\* leaves the window active
C18_NoPropertyOneRegion ==
  \A e \in Updates :
    ~e.prop.present =>
      /\ e.count = 1
      /\ Len(e.regions) = 1
      /\ e.regions[1] = 0 .. e.width - 1
      /\ e.md5[1] = ZeroMD5
      /\ e.cc[1] = NoContexts
      /\ pw[lastOp.proc][e.w].active = 1

\* a window of three cells without the property was updated
C18_Witness == \E e \in Updates : ~e.prop.present /\ e.width = 3

\* the regions the records of a property declare, in their order
Declared(e, k) == [i \in 1 .. k |-> RegionTable[RegionRecords(e.prop)[i].region]]

\* C19: an update that parses k records gives the window k + 1 regions:
\* the declared ones in the order and with the hashes of the records, then
\* the remainder, which is the rectangle of the window without all the
\* declared regions, has no profile of its own and meets no declared region
C19_RemainderLast ==
  \A e \in Updates :
    /\ Len(e.regions) = e.count
    /\ \A i \in 1 .. e.count - 1 :
         /\ e.regions[i] = Declared(e, e.count - 1)[i]
         /\ e.md5[i] = RegionRecords(e.prop)[i].md5
         /\ e.regions[e.count] \cap e.regions[i] = {}
    /\ e.regions[e.count]
         = (0 .. e.width - 1) \ UNION {Declared(e, e.count - 1)[i] : i \in 1 .. e.count - 1}
    /\ e.md5[e.count] = ZeroMD5
    /\ e.cc[e.count] = NoContexts

\* an update parsed two records with different regions and hashes
C19_Witness ==
  \E e \in Updates :
    /\ e.count = 3
    /\ e.md5[1] # e.md5[2]
    /\ e.regions[1] # e.regions[2]

(***************************************************************************)
(* SpecReject: clients publish batches in which records carry bytes that   *)
(* Oyranos cannot read, under hashes with and without a stored profile.    *)
(***************************************************************************)
RejectProfiles ==
  {XcolorProfileOf(HashA, "P1"), XcolorProfileOf(HashC, "P2"),
   XcolorProfileOf(HashD, BadBytes), XcolorProfileOf(HashA, BadBytes)}

RejectBatches == UNION {[1 .. n -> RejectProfiles] : n \in 1 .. MaxBatch}

InitReject == InitServer /\ InitPlugin

RejectPublish == ClientPublishProfiles(RejectBatches)

RejectEvents == {EvProfiles, EvOther}

RejectEvent == HandleEvent(Self, RejectEvents, {"ok1"}, {"COLOR_PROFILES"})

NextReject == RejectPublish \/ RejectEvent

SpecReject == InitReject /\ [][NextReject]_vars

\* the handler of COLOR_PROFILES hands record i of the batch to Oyranos,
\* having stored what the records before it gave, and Oyranos rejects it
RejectedAt(store, batch, i) ==
  /\ batch[i].length # 0
  /\ profileFromMD5(StoreProfiles(store, SubSeq(batch, 1, i - 1), 1), batch[i].md5) = NULL
  /\ oyProfile_FromMem(batch[i].data) = NULL

FirstRejected(store, batch) ==
  {i \in 1 .. Len(batch) :
     /\ RejectedAt(store, batch, i)
     /\ \A k \in 1 .. i - 1 : ~RejectedAt(store, batch, k)}

\* the step is the handler of COLOR_PROFILES reading a payload
ProfilesStep ==
  /\ lastOp'.op = "event"
  /\ lastOp'.event = EvProfiles
  /\ iccColorProfiles.present
  /\ colour_desktop_can[Self] # 0

\* what the handler leaves when record i was rejected
RejectedLeaves(before, batch, after, i) ==
  /\ profileFromMD5(after, batch[i].md5) = NULL
  /\ after = StoreProfiles(before, SubSeq(batch, 1, i - 1), 1)
  /\ \A k \in i + 1 .. Len(batch) :
       profileFromMD5(before, batch[k].md5) = NULL
         /\ (\A x \in 1 .. i - 1 : md5string(batch[x].md5) # md5string(batch[k].md5))
         => profileFromMD5(after, batch[k].md5) = NULL
  /\ \A key \in DOMAIN before : key \in DOMAIN after /\ after[key] = before[key]

JobKinds == {"setupColourTable", "glGenTextures"}

InitJob == InitServer /\ InitPlugin

JobHotPlug == HotPlug(LateDevices)

JobAdvanced == SetAdvanced(AdvancedValues)

JobEvents == {EvRandr, EvAdvanced, EvOther}

JobEvent == HandleEvent(Self, JobEvents, {"ok1"}, JobKinds)

\* the progress Oyranos reports: under way, and complete
ProgressValues == {50, 100}

JobSvc == {"ok1", "run_failed"}

JobCallback == ProgressCallback(Self, ProgressValues, AdvancedValues, JobSvc, JobKinds)

NextJob == JobHotPlug \/ JobAdvanced \/ JobEvent \/ JobCallback

SpecJob == InitJob /\ [][NextJob]_vars

\* C22: the progress callback issues no GL call: no texture is created,
\* bound or uploaded in it
C22_CallbackNoGL ==
  lastOp.op = "callback" =>
    \A k \in 1 .. Len(lastOp.trace) : lastOp.trace[k].kind # "glGenTextures"

(***************************************************************************)
(* SpecPlug: monitors are plugged and unplugged while a client declares a  *)
(* region with a stored profile and the host draws the window.             *)
(***************************************************************************)
PlugKinds == {"reindex", "clean_profiles", "texture"}

InitPlug == InitCache

PlugRegions == ClientSetRegions({1}, CachePayloads)

PlugHotPlug == HotPlug(LateDevices)

PlugEvent == HandleEvent(Self, RegionEvents, {"ok1"}, PlugKinds)

PlugDraw == DrawWindow(Self, {1}, {"ok1"}, UBOutcomes, {GLDisabled}, PlugKinds)

NextPlug == PlugRegions \/ PlugHotPlug \/ PlugEvent \/ PlugDraw

SpecPlug == InitPlug /\ [][NextPlug]_vars

\* the last handler was the one of the hot-plug notification and it found
\* the monitors changed: it rebuilt the output contexts
HotPlugHandled ==
  /\ lastOp.op = "event"
  /\ lastOp.event = EvRandr
  /\ Entries(lastOp.trace, "clean_profiles") # {}

\* C23: a hot-plug notification that changes the outputs is followed,
\* before the next draw of a window, by a rebuild of the output contexts
\* and by a reindex: the draw that comes next after the handler of the
\* notification starts from an invalidated count and recomputes it
C23_HotPlugReindexes ==
  [][HotPlugHandled /\ lastOp'.op = "draw"
       => Entries(lastOp'.trace, "reindex") # {}]_vars

\* C29: after the handler of any event, with the service active, there are
\* as many output contexts as the host has outputs
C29_ContextsMatchOutputs ==
  lastOp.op = "event" /\ colour_desktop_can[Self] # 0
    => nContexts[Self] = Len(devices)

\* the regions of the windows that have an array of contexts
ContextArrays ==
  UNION {{pw[Self][w].pRegion[k].cc.ctx :
            k \in {x \in 1 .. Len(pw[Self][w].pRegion) : pw[Self][w].pRegion[x].cc.alloc}} :
           w \in Windows}

\* C30: after a handler has updated regions or rebuilt the outputs, every
\* region declared with a profile hash has one context for each output,
\* and the texture pass reads no context behind the end of an array
C30_ContextPerOutput ==
  /\ lastOp.op = "event" => \A ctx \in ContextArrays : Len(ctx) = nContexts[Self]
  /\ \A e \in TextureDraws : ~e.oob

\* the running total of regions times outputs over the windows before w
\* (windows with only the remainder take no stencil ID and add nothing)
RECURSIVE RunningTotal(_, _)
RunningTotal(e, w) ==
  IF w = 0 THEN 0
  ELSE RunningTotal(e, w - 1)
         + (IF e.nRegions[w] > 1 THEN e.nRegions[w] * e.nContexts ELSE 0)

WithoutProfile(e) == {k \in 1 .. e.count : ~e.cc[k].alloc}

\* C25: in the region list of a window exactly one entry has no explicit
\* profile, and it is the remainder, whatever the client declared, records
\* with the zero hash included
C25_OneWithoutProfile ==
  \A e \in Updates : WithoutProfile(e) = {e.count}

\* C25 as the code has it: the last entry of the list is the remainder and
\* has no explicit profile; an entry before it has no explicit profile
\* exactly when the hash of its record is all zero
C25_RemainderAndZeroHash ==
  \A e \in Updates :
    /\ e.count = Len(e.cc)
    /\ e.count \in WithoutProfile(e)
    /\ e.md5[e.count] = ZeroMD5
    /\ \A k \in 1 .. e.count - 1 :
         /\ e.md5[k] = RegionRecords(e.prop)[k].md5
         /\ k \in WithoutProfile(e) <=> RegionRecords(e.prop)[k].md5 = ZeroMD5

\* a client declared a record with a profile hash and a record with the
\* zero hash, and the window took both
C25_Witness ==
  \E e \in Updates :
    /\ e.count = 3
    /\ \E k \in 1 .. 2 : RegionRecords(e.prop)[k].md5 = ZeroMD5 /\ ~e.cc[k].alloc
    /\ \E k \in 1 .. 2 : RegionRecords(e.prop)[k].md5 # ZeroMD5 /\ e.cc[k].alloc

\* record i is the last of the batch under its hash, has bytes Oyranos
\* reads, and the handler reads the batch to its end
LastUpload(batch, i) ==
  /\ batch[i].length # 0
  /\ oyProfile_FromMem(batch[i].data) # NULL
  /\ \A k \in 1 .. Len(batch) : batch[k].data # BadBytes
  /\ \A k \in i + 1 .. Len(batch) : batch[k].md5 # batch[i].md5

\* C26: bytes uploaded under a hash that has a stored profile replace it:
\* after the handler the hash has the profile made from the new bytes
C26_UploadReplaces ==
  [][ProfilesStep =>
       \A i \in 1 .. Len(iccColorProfiles.recs) :
         /\ LastUpload(iccColorProfiles.recs, i)
         /\ profileFromMD5(privates_cache[Self].profiles,
                           iccColorProfiles.recs[i].md5) # NULL
         => profileFromMD5(privates_cache'[Self].profiles,
                           iccColorProfiles.recs[i].md5)
              = oyProfile_FromMem(iccColorProfiles.recs[i].data)]_vars

\* the tables the handler of a step set up
TablesOf(op) ==
  {op.trace[k] : k \in Entries(op.trace, "setupColourTable")}

\* C27: when the engine fails for a transform that is not in the cache,
\* at whichever call (no conversion created, correction of the options
\* failed, run of the conversion failed), the grid of the context holds
\* the identity afterwards and nothing is put in the cache under the key
C27_FailureKeepsIdentity ==
  [][\A e \in TablesOf(lastOp') :
       e.failed /\ e.key \notin DOMAIN privates_cache[Self].cluts
         => /\ e.clut = IdentityGrid
            /\ e.key \notin DOMAIN privates_cache'[Self].cluts]_vars

(***************************************************************************)
(* SpecSetup: monitors are plugged and unplugged and the options change    *)
(* while another colour server writes the heartbeat.                       *)
(***************************************************************************)
SetupKinds == {"check", "clean_profiles", "move_color_server_profiles"}

InitSetup == InitServer /\ InitPlugin

SetupDevices == {<<DevP>>, <<DevP, DevN>>, <<DevN, DevP>>}

SetupHotPlug == HotPlug(SetupDevices)

SetupAdvanced == SetAdvanced(AdvancedValues)

SetupForeign == ForeignHeartbeat({OtherPid}, {"other"})

SetupEvents == {EvRandr, EvGeometry, EvAdvanced, EvDesktop, EvOther}

SetupEvent == HandleEvent(Self, SetupEvents, {"ok1"}, SetupKinds)

NextSetup == SetupHotPlug \/ SetupAdvanced \/ SetupForeign \/ SetupEvent

SpecSetup == InitSetup /\ [][NextSetup]_vars

\* the heartbeat written with the init request at entry h of the trace
InitBeatAt(h) ==
  /\ lastOp.trace[h].kind = "check"
  /\ lastOp.trace[h].request = 2
  /\ lastOp.trace[h].wrote

\* C28: in an update of the output configuration with init set, which is
\* the update that follows a rebuild of the output contexts, the heartbeat
\* is written with the init request before the profile atoms of any output
\* are moved: between the rebuild and a move there is such a write
C28_HeartbeatBeforeMoves ==
  \A c \in Entries(lastOp.trace, "clean_profiles") :
    \A m \in Entries(lastOp.trace, "move_color_server_profiles") :
      c < m => \E h \in c + 1 .. m - 1 : InitBeatAt(h)

\* the outputs were rebuilt for two monitors while the heartbeat of another
\* server was set; the handler wrote its own and then moved the atoms of
\* the second output
C28_Witness ==
  /\ lastOp.op = "event"
  /\ \E c \in Entries(lastOp.trace, "clean_profiles") :
       \E m \in Entries(lastOp.trace, "move_color_server_profiles") :
         /\ c < m
         /\ lastOp.trace[m].screen = 1
         /\ \E h \in c + 1 .. m - 1 :
              InitBeatAt(h) /\ lastOp.trace[h].read.pid = OtherPid

(***************************************************************************)
(* SpecExempt: two windows on two outputs, one of them with declared       *)
(* regions, drawn from every state of the stencil and the scissor test.    *)
(***************************************************************************)
ExemptPayloads == {NoRegionsProp, Regions(<<XcolorRegionOf(1, ZeroMD5)>>, <<>>)}

ExemptKinds == {"reindex", "glState", "texture", "stencil"}

InitExempt == InitIndex

ExemptRegions == ClientSetRegions(Windows, ExemptPayloads)

ExemptEvent == HandleEvent(Self, IndexEvents, {"ok1"}, ExemptKinds)

ExemptDraw == DrawWindow(Self, Windows, {"ok1"}, {"null"}, GLStates, ExemptKinds)

NextExempt == ExemptRegions \/ ExemptEvent \/ ExemptDraw

SpecExempt == InitExempt /\ [][NextExempt]_vars

\* the passes of a callback over a window that has only the remainder
ExemptPasses(hook) ==
  {k \in Entries(lastOp.trace, "glState") :
     /\ lastOp.trace[k].hook = hook
     /\ lastOp.trace[k].at = "passes"
     /\ lastOp.trace[k].nRegions <= 1}

\* C31: a window with only the remainder is exempt from the stencil
\* routing: a reindex gives it the offset 0 and does not count it;
\* pluginDrawWindow draws nothing into the stencil buffer for it and leaves
\* the tests as it found them; its texture pass enables the scissor test,
\* leaves the stencil test as it found it and tests against no stencil ID
C31_RemainderOnlyExempt ==
  /\ \A e \in Reindexes :
       /\ e.count = RegionTotal(e.nRegions, NWindows)
       /\ \A w \in Windows : e.nRegions[w] <= 1 => e.start[w] = 0
  /\ \A k \in ExemptPasses("drawWindow") :
       /\ HookStates("drawWindow", "enter") = {lastOp.trace[k].gl}
       /\ Entries(lastOp.trace, "stencil") = {}
  /\ \A k \in ExemptPasses("drawWindowTexture") :
       /\ lastOp.trace[k].gl.GL_SCISSOR_TEST
       /\ \A g \in HookStates("drawWindowTexture", "enter") :
            lastOp.trace[k].gl.GL_STENCIL_TEST = g.GL_STENCIL_TEST
       /\ \A e \in TextureDraws : ~e.stencil

\* window 2 has only the remainder while window 1 has a declared region:
\* a draw of window 2 that began with both tests disabled ran the reindex
\* and both passes, and the texture pass drew
C31_Witness ==
  /\ lastOp.op = "draw" /\ lastOp.w = 2
  /\ \E e \in Reindexes : e.nRegions[1] > 1 /\ e.nRegions[2] = 1 /\ e.count > 0
  /\ HookStates("drawWindow", "enter") = {GLDisabled}
  /\ ExemptPasses("drawWindow") # {}
  /\ ExemptPasses("drawWindowTexture") # {}
  /\ \E e \in TextureDraws : e.drawn

(***************************************************************************)
(* SpecPermanent: another colour server writes its record, lets it grow    *)
(* old or withdraws it, while clients publish profiles and regions and the *)
(* outputs change.                                                         *)
(***************************************************************************)
PermKinds == {"reindex"}

InitPermanent == InitCache

PermPayloads == {Regions(<<XcolorRegionOf(1, HashA)>>, <<>>)}

PermRegions == ClientSetRegions({1}, PermPayloads)

PermBatches == {<<[md5 |-> HashC, length |-> 1, data |-> "P1"]>>}

PermPublish == ClientPublishProfiles(PermBatches)

PermDevices == {<<DevP, DevN>>}

PermHotPlug == HotPlug(PermDevices)

\* the other server starts over the record of the process
PermForeign ==
  /\ iccColorDesktop.state = "set" /\ iccColorDesktop.pid = Pid(Self)
  /\ ForeignHeartbeat({OtherPid}, {"other"})

PermEvents == {EvProfiles, EvRegions(1), EvRandr, EvDesktop}

PermEvent == HandleEvent(Self, PermEvents, {"ok1"}, PermKinds)

PermDraw == DrawWindow(Self, {1}, {"ok1"}, {"null"}, {GLDisabled}, PermKinds)

\* a second passes when the process has handled the events it was sent
PermTick == pending[Self] = {} /\ PromptTick

NextPermanent ==
  \/ PermRegions \/ PermPublish \/ PermHotPlug \/ PermForeign \/ ForeignWithdraw
  \/ PermEvent \/ PermDraw \/ PermTick

SpecPermanent == InitPermanent /\ [][NextPermanent]_vars

\* the step is a callback of process p
CallbackOf(p) == lastOp'.op \in {"event", "draw"} /\ lastOp'.proc = p

\* the record of the other server is gone or older than StaleAfter
ForeignGone ==
  \/ iccColorDesktop.state # "set"
  \/ /\ iccColorDesktop.pid = OtherPid
     /\ iccColorDesktop.time + StaleAfter < now

\* C32: a process that has given the service up never takes it again,
\* whatever the events, the draws and the record of the heartbeat are; its
\* callbacks leave the heartbeat and the time of its last check as they
\* are, and its event handler changes nothing of the plug-in
C32_DeferralPermanent ==
  [][colour_desktop_can[Self] = 0
       => /\ colour_desktop_can'[Self] = 0
          /\ CallbackOf(Self)
               => /\ iccColorDesktop' = iccColorDesktop
                  /\ icc_color_desktop_last_time' = icc_color_desktop_last_time
          /\ (CallbackOf(Self) /\ lastOp'.op = "event") => UNCHANGED pluginVars]_vars

\* the process has deferred, the record of the other server is gone, and
\* the process handled the event of a profile that it did not store
C32_Witness ==
  /\ colour_desktop_can[Self] = 0
  /\ ForeignGone
  /\ lastOp.op = "event" /\ lastOp.proc = Self /\ lastOp.event = EvProfiles
  /\ iccColorProfiles.present
  /\ md5string(HashC) \notin DOMAIN privates_cache[Self].profiles

(***************************************************************************)
(* SpecFlight: the jobs of the colour tables complete at any time, while   *)
(* monitors come and go and a client declares the regions of a window.     *)
(***************************************************************************)
FlightKinds == {"iccProgressCallback"}

InitFlight == InitCache

FlightDevices == {<<DevP>>, <<DevP, DevP>>}

FlightHotPlug == HotPlug(FlightDevices)

FlightRegions == ClientSetRegions({1}, CachePayloads)

FlightEvent == HandleEvent(Self, RegionEvents, {"ok1"}, FlightKinds)

\* what the freed memory of a context holds when the callback reads it
FlightOutcomes == {"lost", "reused"}

FlightCallback ==
  JobCallbackOf(Self, ProgressValues, {0}, {"ok1"}, FlightOutcomes, FlightKinds)

NextFlight == FlightHotPlug \/ FlightRegions \/ FlightEvent \/ FlightCallback

SpecFlight == InitFlight /\ [][NextFlight]_vars

\* the callbacks of the handler that ran last: one entry per complete job
Completions == {lastOp.trace[i] : i \in Entries(lastOp.trace, "iccProgressCallback")}

\* C33: the callback of a complete job works on a context that lives: no
\* job completes whose context was freed since setupColourTable left it
C33_CallbackOnLiveContext ==
  lastOp.op = "callback" => \A e \in Completions : ~e.freed

\* the contexts of process p that hold the texture name: of the outputs
\* and of the regions of the windows
OutputHolders(p, name) ==
  {i \in 1 .. nContexts[p] : contexts[p][i].cc.glTexture = name}

RegionHolders(p, name) ==
  UNION {{<<w, x>> : x \in {y \in RegionContextsOf(p, w) :
                               RegionContext(p, w, y).glTexture = name}} :
           w \in Windows}

\* C34: every texture that was generated and not deleted is the texture
\* of exactly one context of an output or of a region
C34_TextureHasOneContext ==
  \A name \in glTextures[Self] :
    Cardinality(OutputHolders(Self, name)) + Cardinality(RegionHolders(Self, name)) = 1

(***************************************************************************)
(* SpecWide: a client has declared many regions for window 2, on two       *)
(* outputs.  The regions carry the zero hash: none gets a context.  The    *)
(* start is the state after the plug-in took the regions of window 2; the  *)
(* host draws window 1, whose regions change.                              *)
(***************************************************************************)
\* the most regions a client declares for a window
ManyRegions == 127

ManyRecords(n) == Regions([k \in 1 .. n |-> XcolorRegionOf(1, ZeroMD5)], <<>>)

\* the window as updateWindowRegions leaves it with the n records
ManyTaken(n, geo) ==
  [stencil_id_start |-> 0,
   nRegions |-> n + 1,
   pRegion |-> [k \in 1 .. n + 1 |->
                  IF k <= n
                  THEN RegionEntry(XcolorRegionOf(1, ZeroMD5), <<>>)
                  ELSE [md5 |-> ZeroMD5,
                        xRegion |-> windowRegion(geo) \ convertRegion(1),
                        cc |-> NoContexts]],
   absoluteWindowRectangleOld |-> <<0, geo.width>>,
   active |-> 1]

WideKinds == {"reindex"}

InitWide ==
  /\ now = StartTime
  /\ loaded = {Self}
  /\ stencilBits = 8
  /\ devices = <<DevP, DevN>>
  /\ geometry = [w \in Windows |-> Geo(0, 2, FALSE)]
  /\ iccColorProfiles = NoProfilesProp
  /\ iccColorDesktop = NoDesktopAtom
  /\ iccProfileAtoms = [i \in 1 .. MaxOutputs |-> NoAtoms]
  /\ iccDisplayAdvanced = 0
  /\ pending = [p \in Procs |-> {}]
  /\ colour_desktop_can = [p \in Procs |-> 1]
  /\ icc_color_desktop_last_time = [p \in Procs |-> 0]
  /\ colour_desktop_region_count = [p \in Procs |-> -1]
  /\ old_devices = [p \in Procs |-> <<>>]
  /\ nContexts = [p \in Procs |-> 0]
  /\ contexts = [p \in Procs |-> <<>>]
  /\ glTextures = [p \in Procs |-> {}]
  /\ privates_cache = [p \in Procs |-> [profiles |-> NoEntries, cluts |-> NoEntries]]
  /\ lastOp = NoOp
  /\ hist = NoHist
  /\ \E n \in {2, ManyRegions - 1, ManyRegions} :
       /\ iccColorRegions =
            [w \in Windows |-> IF w = 2 THEN ManyRecords(n) ELSE NoRegionsProp]
       /\ pw = [p \in Procs |->
                 [w \in Windows |->
                    IF p = Self /\ w = 2
                    THEN ManyTaken(n, Geo(0, 2, FALSE)) ELSE pluginInitWindow]]

WideRegions == ClientSetRegions({1}, IndexPayloads)

WideResize == HostConfigure({1}, IndexGeos)

WideEvent == HandleEvent(Self, GLEvents, {"ok1"}, WideKinds)

WideDraw == DrawWindow(Self, {1}, {"ok1"}, {"null"}, {GLDisabled}, WideKinds)

NextWide == WideRegions \/ WideResize \/ WideEvent \/ WideDraw

SpecWide == InitWide /\ [][NextWide]_vars

\* the values the stencil buffer holds for the IDs of a reindex: the low
\* stencilBits bits of each
StencilValues(e) == {IdOf(e, t) % (2 ^ stencilBits) : t \in Triples(e)}

\* C35: the stencil IDs a reindex lays out stay pairwise different and
\* different from 0 when they are cut to the bits of the stencil buffer
C35_IdsDistinctInBuffer ==
  \A e \in Reindexes :
    /\ Cardinality(StencilValues(e)) = Cardinality(Triples(e))
    /\ 0 \notin StencilValues(e)

\* C36: the texture pass of a window that is invisible draws none of the
\* regions of the window on any output
C36_InvisibleDrawsNoRegion ==
  (lastOp.op = "draw" /\ geometry[lastOp.w].invisible)
    => \A e \in TextureDraws : ~e.drawn

(***************************************************************************)
(* SpecDetach: the process shares the heartbeat with another colour server *)
(* and the host unloads the plug-in at some time.                          *)
(***************************************************************************)
DetachKinds == {"move_color_server_profiles"}

InitDetach == InitServer /\ InitPlugin

DetachForeign == ForeignHeartbeat({OtherPid}, {"other"})

DetachEvent == HandleEvent(Self, BeatEvents, {"ok1"}, DetachKinds)

DetachDraw == DrawWindow(Self, {1}, {"ok1"}, {"null"}, {GLDisabled}, DetachKinds)

DetachFini == FiniScreen(Self, DetachKinds)

DetachTick == now < MaxTime /\ PromptTick

NextDetach == DetachForeign \/ DetachEvent \/ DetachDraw \/ DetachFini \/ DetachTick

SpecDetach == InitDetach /\ [][NextDetach]_vars

\* process p does not own the heartbeat: it gave the service up, or the
\* record carries the id of another process
NotOwner(p) ==
  \/ colour_desktop_can[p] = 0
  \/ iccColorDesktop.state = "set" /\ iccColorDesktop.pid # Pid(p)

\* C37: no callback of a process that does not own the heartbeat changes
\* the record, the end of the plug-in included
C37_OnlyOwnerWrites ==
  [][(NotOwner(Self) /\ lastOp'.proc = Self /\ lastOp'.op \in {"event", "draw", "fini"})
       => iccColorDesktop' = iccColorDesktop]_vars

\* the hashes of the records a client publishes
StoreHashes == {rec.md5 : rec \in XcolorProfiles}

\* C38: the key of the store tells the hashes apart: two hashes of a
\* payload that differ have keys that differ, and a hash that had no
\* profile and has no record in the payload has no profile after the
\* handler of COLOR_PROFILES
C38_LookupByOwnHash ==
  [][ProfilesStep =>
       /\ \A i \in 1 .. Len(iccColorProfiles.recs) :
            \A k \in 1 .. Len(iccColorProfiles.recs) :
              iccColorProfiles.recs[i].md5 # iccColorProfiles.recs[k].md5
                => md5string(iccColorProfiles.recs[i].md5)
                     # md5string(iccColorProfiles.recs[k].md5)
       /\ \A md5 \in StoreHashes :
            (/\ profileFromMD5(privates_cache[Self].profiles, md5) = NULL
             /\ \A i \in 1 .. Len(iccColorProfiles.recs) :
                  iccColorProfiles.recs[i].md5 # md5)
            => profileFromMD5(privates_cache'[Self].profiles, md5) = NULL]_vars

\* the checks of the step that were not asked for by an init and found
\* the record more than CheckEvery older than the check before, or none
RenewalChecks ==
  {check \in {lastOp'.trace[i] : i \in Entries(lastOp'.trace, "check")} :
     /\ check.request = 0
     /\ (IF check.read.state = "set" THEN check.read.time ELSE 0) + CheckEvery
          < check.last_time}

\* the outputs of process p that have a destination profile
Attached(p) == {i \in 1 .. nContexts[p] : contexts[p][i].cc.dst_profile # NULL}

\* C39: a check without init that reaches the renewal writes the record
\* with the pid of the process and the time of the check if an output has
\* a destination profile; if none has one and the check read a record, it
\* empties the record and the process gives the service up
C39_RenewalWritesOrClears ==
  [][\A check \in RenewalChecks :
       /\ Attached(Self) # {}
            => /\ check.wrote
               /\ iccColorDesktop'.state = "set"
               /\ iccColorDesktop'.pid = Pid(Self)
               /\ iccColorDesktop'.time = now
       /\ (Attached(Self) = {} /\ check.read.state = "set")
            => /\ check.cleared
               /\ iccColorDesktop' = EmptyDesktopAtom
               /\ colour_desktop_can'[Self] = 0]_vars

\* a check without init found the record of the process more than
\* CheckEvery older than the check before and wrote it anew
C39_Witness ==
  \E check \in Checks :
    /\ check.request = 0
    /\ OwnRecord(lastOp.proc, check)
    /\ check.read.time + CheckEvery < check.last_time
    /\ check.wrote
    /\ iccColorDesktop.pid = Pid(Self) /\ iccColorDesktop.time = now

(***************************************************************************)
(* SpecPartial: clients set COLOR_REGIONS to whole records and to payloads *)
(* that end in a record without its last byte.                             *)
(***************************************************************************)
PartialPayloads ==
  {NoRegionsProp,
   Regions(<<XcolorRegionOf(1, ZeroMD5)>>, <<>>),
   Regions(<<>>, <<XcolorRegionOf(2, ZeroMD5)>>),
   Regions(<<XcolorRegionOf(1, ZeroMD5)>>, <<XcolorRegionOf(2, ZeroMD5)>>)}

PartialKinds == {"updateWindowRegions"}

InitPartial == InitIndex

PartialRegions == ClientSetRegions(Windows, PartialPayloads)

PartialEvent == HandleEvent(Self, IndexEvents, {"ok1"}, PartialKinds)

PartialDraw == DrawWindow(Self, Windows, {"ok1"}, {"null"}, {GLDisabled}, PartialKinds)

NextPartial == PartialRegions \/ PartialEvent \/ PartialDraw

SpecPartial == InitPartial /\ [][NextPartial]_vars

\* C40: the regions a window gets from a payload of n bytes, the remainder
\* left aside, are as many as whole records fit into the n bytes
C40_WholeRecordsOnly ==
  \A e \in Updates :
    e.prop.present => e.count - 1 = nBytesOf(e.prop) \div RecordSize

====
